---- MODULE Spec2Model ----
(***************************************************************************)
(* State-machine model of the slick-orderbook engines: the order-granular  *)
(* L3 book (orderbook_l3_impl.hpp, price_level.hpp), the aggregated L2     *)
(* book (orderbook_l2_impl.hpp, level_container.hpp) and the seqlock that  *)
(* publishes the L2 top-of-book to concurrent readers.                     *)
(***************************************************************************)
EXTENDS Integers, Sequences, FiniteSets, TLC

\* ------------------------------------------------------------------ bounds
MaxQty == 2
MaxSeq == 2
MaxTobSeq == 6
MaxPublications == 2
NumThreads == 2
MaxCalls == 2

\* ------------------------------------------------------- program constants
PriceChanged == 1
QuantityChanged == 2
LastInBatch == 4
INVALID_INDEX == 65535

\* change_starting_index_ starts at the sentinel.
ChangeStartingIndexInit == INVALID_INDEX

Sides == {"Buy", "Sell"}
\* The pool hands out stable references; it grows on demand, so a reference is
\* always available for every order id that can be live at once.
Slots == {1, 2, 3}

\* A scope is the book a run drives and the argument values its calls draw
\* from. Every run keeps the scope it starts with.
ScopeOneSide(side) ==
    [book |-> "L3", ids |-> {1, 2}, sides |-> {side}, prices |-> {1, 2},
     qtys |-> (0 - 1)..MaxQty, tss |-> {1}, prios |-> {0, 1}, seqs |-> {0},
     lasts |-> {TRUE}, resets |-> TRUE]

ScopeTwoSides ==
    [book |-> "L3", ids |-> {1, 2}, sides |-> Sides, prices |-> {1, 2},
     qtys |-> 0..1, tss |-> {1}, prios |-> {0}, seqs |-> {0}, lasts |-> {TRUE},
     resets |-> TRUE]

ScopeTimestamps ==
    [book |-> "L3", ids |-> {1, 2}, sides |-> {"Buy"}, prices |-> {1},
     qtys |-> 0..1, tss |-> {1, 2}, prios |-> {0, 1}, seqs |-> {0}, lasts |-> {TRUE},
     resets |-> FALSE]

ScopePriority ==
    [book |-> "L3", ids |-> {1, 2, 3}, sides |-> {"Sell"}, prices |-> {1},
     qtys |-> 0..1, tss |-> {1}, prios |-> {0, 1, 2}, seqs |-> {0}, lasts |-> {TRUE},
     resets |-> FALSE]

ScopeBatch ==
    [book |-> "L3", ids |-> {1, 2}, sides |-> {"Sell"}, prices |-> {1},
     qtys |-> 0..1, tss |-> {1}, prios |-> {0}, seqs |-> {0}, lasts |-> BOOLEAN,
     resets |-> FALSE]

ScopeBatchPrices ==
    [book |-> "L3", ids |-> {1}, sides |-> Sides, prices |-> {1, 2},
     qtys |-> 0..1, tss |-> {1}, prios |-> {0}, seqs |-> {0}, lasts |-> BOOLEAN,
     resets |-> FALSE]

ScopeSeq ==
    [book |-> "L3", ids |-> {1, 2}, sides |-> {"Buy"}, prices |-> {1, 2},
     qtys |-> 0..1, tss |-> {1}, prios |-> {0}, seqs |-> 0..MaxSeq, lasts |-> {TRUE},
     resets |-> FALSE]

\* The scopes whose runs also record each call's name and arguments.
ScopeCallsTwoIds ==
    [book |-> "L3", ids |-> {1, 2}, sides |-> {"Sell"}, prices |-> {1},
     qtys |-> 0..1, tss |-> {1}, prios |-> {0}, seqs |-> 0..1, lasts |-> {TRUE},
     resets |-> FALSE]

ScopeCallsOneId ==
    [book |-> "L3", ids |-> {1}, sides |-> Sides, prices |-> {1, 2},
     qtys |-> (0 - 1)..MaxQty, tss |-> {1}, prios |-> {0, 1}, seqs |-> 0..1,
     lasts |-> {TRUE}, resets |-> FALSE]

ScopesCalls == {ScopeCallsTwoIds, ScopeCallsOneId}

L3Scopes == {ScopeOneSide("Buy"), ScopeOneSide("Sell"), ScopeTwoSides, ScopeTimestamps,
             ScopePriority, ScopeBatch, ScopeBatchPrices, ScopeSeq} \cup ScopesCalls

ScopeL2(side) ==
    [book |-> "L2", ids |-> {}, sides |-> {side}, prices |-> {1, 2},
     qtys |-> (0 - 1)..MaxQty, tss |-> {1}, prios |-> {}, seqs |-> {0}, lasts |-> {TRUE},
     resets |-> TRUE]

ScopeL2TwoSides ==
    [book |-> "L2", ids |-> {}, sides |-> Sides, prices |-> {1},
     qtys |-> (0 - 1)..MaxQty, tss |-> {1}, prios |-> {}, seqs |-> {0}, lasts |-> {TRUE},
     resets |-> TRUE]

ScopeL2Batch ==
    [book |-> "L2", ids |-> {}, sides |-> {"Buy"}, prices |-> {1, 2, 3},
     qtys |-> 0..1, tss |-> {1}, prios |-> {}, seqs |-> {0}, lasts |-> BOOLEAN,
     resets |-> FALSE]

ScopeL2BatchSides ==
    [book |-> "L2", ids |-> {}, sides |-> Sides, prices |-> {1},
     qtys |-> 0..1, tss |-> {1}, prios |-> {}, seqs |-> {0}, lasts |-> BOOLEAN,
     resets |-> FALSE]

ScopeL2Seq ==
    [book |-> "L2", ids |-> {}, sides |-> {"Sell"}, prices |-> {1, 2},
     qtys |-> 0..1, tss |-> {1, 2}, prios |-> {}, seqs |-> 0..MaxSeq, lasts |-> {TRUE},
     resets |-> FALSE]

L2Scopes == {ScopeL2("Buy"), ScopeL2("Sell"), ScopeL2TwoSides, ScopeL2Batch, ScopeL2BatchSides, ScopeL2Seq}

VARIABLES
    scope,         \* the book and the argument values of this run
    levels,        \* L3: levels_[side], best-first sequence of PriceLevelL3
    pool,          \* L3: live Order objects of order_pool_, by reference
    order_map,     \* L3: order_map_, OrderId -> Order reference
    sides,         \* L2: sides_[side], best-first sequence of PriceLevelL2
    cached_best,   \* L2: cached_best_bid_ and cached_best_ask_, by side
    tob_seq,       \* L2: tob_seq_, the seqlock counter
    change_starting_index, \* L2: change_starting_index_
    cached_tob,    \* cached_tob_ of the book
    last_seq_num,  \* last_seq_num_ of the book
    events,        \* observer events emitted by the last call, in order
    result,        \* the last call: its return value, its batch flag, its kind
    hist,          \* history of the running batch and of the sequence gate
    writer,        \* seqlock: the publishing thread inside notifyTopOfBookIfChanged
    reader,        \* seqlock: a reading thread inside getTopOfBook
    symbol_map,    \* manager: symbol_map_, SymbolId -> the book it owns
    mutex,         \* manager: mutex_, its exclusive holder and its shared holders
    threads,       \* manager: each calling thread's position in its call
    registry       \* manager: books constructed per symbol, symbols requested

l3vars == <<levels, pool, order_map>>

l2vars == <<sides, cached_best, tob_seq, change_starting_index>>

mgrvars == <<symbol_map, mutex, threads, registry>>

bookvars == <<levels, pool, order_map, sides, cached_best, tob_seq,
              change_starting_index, cached_tob, last_seq_num, events, result, hist,
              writer, reader>>

vars == <<scope, levels, pool, order_map, sides, cached_best, tob_seq,
          change_starting_index, cached_tob, last_seq_num, events, result, hist,
          writer, reader, symbol_map, mutex, threads, registry>>

\* ----------------------------------------------------------------- helpers
HasFlag(flags, f) == (flags \div f) % 2 = 1

Min(a, b) == IF a < b THEN a ELSE b

RemoveAt(s, i) == SubSeq(s, 1, i - 1) \o SubSeq(s, i + 1, Len(s))

InsertAt(s, i, x) == SubSeq(s, 1, i - 1) \o <<x>> \o SubSeq(s, i, Len(s))

RECURSIVE SumSeq(_)
SumSeq(s) == IF s = <<>> THEN 0 ELSE Head(s) + SumSeq(Tail(s))

EmptyTob == [best_bid |-> 0, bid_quantity |-> 0, best_ask |-> 0, ask_quantity |-> 0,
             timestamp |-> 0]

\* BidComparator / AskComparator: a sorts strictly before b on this side.
Compare(side, a, b) == IF side = "Buy" THEN a > b ELSE a < b

\* ------------------------------------------------- sequence-number gate
\* if (seq_num > 0) { if (seq_num < last_seq_num_) return false; last_seq_num_ = seq_num; }
GateRejectsNothing(last, seq_num) == FALSE

GateRejectsEqual(last, seq_num) == seq_num > 0 /\ seq_num <= last

GateRejectsUntracked(last, seq_num) == seq_num < last

GateRejects(last, seq_num) == seq_num > 0 /\ seq_num < last

GateRecordKeep(last, seq_num) == last

GateRecord(last, seq_num) == IF seq_num > 0 THEN seq_num ELSE last

\* ------------------------------------------------------ PriceLevelL3
\* Position at which insertOrder splices: before the first resident whose
\* priority is strictly greater, else at the tail.
InsertPosTail(orders, p, priority) == Len(orders) + 1

InsertPosBeforeEqual(orders, p, priority) ==
    LET later == {i \in 1..Len(orders) : p[orders[i]].priority >= priority}
    IN IF later = {} THEN Len(orders) + 1
       ELSE CHOOSE i \in later : \A j \in later : i <= j

InsertPos(orders, p, priority) ==
    LET later == {i \in 1..Len(orders) : p[orders[i]].priority > priority}
    IN IF later = {} THEN Len(orders) + 1
       ELSE CHOOSE i \in later : \A j \in later : i <= j

insertOrder(level, p, ref) ==
    [level EXCEPT
        !.orders = InsertAt(level.orders, InsertPos(level.orders, p, p[ref].priority), ref),
        !.total_quantity = level.total_quantity + p[ref].quantity]

UnlinkNothing(orders, ref) == orders

\* IntrusiveList::erase unlinks the node wherever it is in the queue.
Unlink(orders, ref) == SelectSeq(orders, LAMBDA r : r # ref)

removeOrderKeepsTotal(level, p, ref) ==
    [level EXCEPT !.orders = Unlink(level.orders, ref)]

removeOrder(level, p, ref) ==
    [level EXCEPT
        !.orders = Unlink(level.orders, ref),
        !.total_quantity = level.total_quantity - p[ref].quantity]

updateOrderQuantityAdd(level, old_quantity, new_quantity) ==
    [level EXCEPT !.total_quantity = level.total_quantity + new_quantity]

updateOrderQuantity(level, old_quantity, new_quantity) ==
    [level EXCEPT !.total_quantity = level.total_quantity - old_quantity + new_quantity]

\* ------------------------------------------------------ level map (L3)
\* 1-based position of the level with this price, 0 when there is none.
FindLevel(lv, price) ==
    IF \E i \in 1..Len(lv) : lv[i].price = price
    THEN CHOOSE i \in 1..Len(lv) : lv[i].price = price
    ELSE 0

\* lower_bound under the side's comparator: first position not sorting before price.
LowerBoundFront(side, lv, price) == 1

LowerBound(side, lv, price) ==
    Cardinality({i \in 1..Len(lv) : Compare(side, lv[i].price, price)}) + 1

\* getLevel: (position, 0-based index), INVALID_INDEX when the level is absent.
getLevelIndexZero(lvls, side, price) ==
    [pos |-> FindLevel(lvls[side], price),
     index |-> IF FindLevel(lvls[side], price) = 0 THEN INVALID_INDEX ELSE 0]

getLevel(lvls, side, price) ==
    LET i == FindLevel(lvls[side], price)
    IN [pos |-> i, index |-> IF i = 0 THEN INVALID_INDEX ELSE i - 1]

getOrCreateLevelNeverNew(lvls, side, price) ==
    LET i == FindLevel(lvls[side], price)
        at == LowerBound(side, lvls[side], price)
    IN IF i # 0
       THEN [levels |-> lvls, pos |-> i, index |-> i - 1, is_new |-> FALSE]
       ELSE [levels |-> [lvls EXCEPT ![side] =
                            InsertAt(lvls[side], at,
                                     [price |-> price, orders |-> <<>>, total_quantity |-> 0])],
             pos |-> at, index |-> at - 1, is_new |-> FALSE]

getOrCreateLevel(lvls, side, price) ==
    LET i == FindLevel(lvls[side], price)
        at == LowerBound(side, lvls[side], price)
    IN IF i # 0
       THEN [levels |-> lvls, pos |-> i, index |-> i - 1, is_new |-> FALSE]
       ELSE [levels |-> [lvls EXCEPT ![side] =
                            InsertAt(lvls[side], at,
                                     [price |-> price, orders |-> <<>>, total_quantity |-> 0])],
             pos |-> at, index |-> at - 1, is_new |-> TRUE]

removeLevelIfEmptyKeeps(lvls, side, price) == [levels |-> lvls, removed |-> FALSE]

removeLevelIfEmptyReportsOnly(lvls, side, price) ==
    [levels |-> lvls,
     removed |-> FindLevel(lvls[side], price) # 0
                 /\ lvls[side][FindLevel(lvls[side], price)].orders = <<>>]

removeLevelIfEmpty(lvls, side, price) ==
    LET i == FindLevel(lvls[side], price)
    IN IF i # 0 /\ lvls[side][i].orders = <<>>
       THEN [levels |-> [lvls EXCEPT ![side] = RemoveAt(lvls[side], i)], removed |-> TRUE]
       ELSE [levels |-> lvls, removed |-> FALSE]

\* ------------------------------------------------------ observer events
OrderUpdateEvent(o, quantity, timestamp, level_index, change_flags, seq_num) ==
    [type |-> "OrderUpdate", order_id |-> o.order_id, side |-> o.side, price |-> o.price,
     quantity |-> quantity, timestamp |-> timestamp, price_level_index |-> level_index,
     priority |-> o.priority, change_flags |-> change_flags, seq_num |-> seq_num]

PriceLevelUpdateEvent(side, price, quantity, timestamp, level_index, change_flags, seq_num) ==
    [type |-> "PriceLevelUpdate", side |-> side, price |-> price, quantity |-> quantity,
     timestamp |-> timestamp, level_index |-> level_index, change_flags |-> change_flags,
     seq_num |-> seq_num]

TopOfBookEvent(tob) ==
    [type |-> "TopOfBookUpdate", best_bid |-> tob.best_bid, bid_quantity |-> tob.bid_quantity,
     best_ask |-> tob.best_ask, ask_quantity |-> tob.ask_quantity, timestamp |-> tob.timestamp]

\* A book value b carries the fields of OrderBookL3 plus the events emitted so
\* far by the running call (ev) and its return value (ret).
Emit(b, e) == [b EXCEPT !.ev = Append(b.ev, e)]

Return(b, value) == [b EXCEPT !.ret = value]

\* Best price and total quantity of a side as notifyTopOfBookIfChanged reads them.
BestPrice(lvls, side) == IF lvls[side] = <<>> THEN 0 ELSE lvls[side][1].price

BestQty(lvls, side) == IF lvls[side] = <<>> THEN 0 ELSE lvls[side][1].total_quantity

notifyTopOfBookAlways(b, timestamp, update_flags) ==
    IF ~HasFlag(update_flags, LastInBatch) THEN b
    ELSE LET tob == [best_bid |-> BestPrice(b.levels, "Buy"),
                     bid_quantity |-> BestQty(b.levels, "Buy"),
                     best_ask |-> BestPrice(b.levels, "Sell"),
                     ask_quantity |-> BestQty(b.levels, "Sell"),
                     timestamp |-> timestamp]
         IN Emit([b EXCEPT !.cached_tob = tob], TopOfBookEvent(tob))

notifyTopOfBookNever(b, timestamp, update_flags) == b

notifyTopOfBookIfChanged(b, timestamp, update_flags) ==
    IF ~HasFlag(update_flags, LastInBatch) THEN b
    ELSE LET new_best_bid == BestPrice(b.levels, "Buy")
             new_bid_qty == BestQty(b.levels, "Buy")
             new_best_ask == BestPrice(b.levels, "Sell")
             new_ask_qty == BestQty(b.levels, "Sell")
             bid_changed == b.cached_tob.best_bid # new_best_bid
                            \/ b.cached_tob.bid_quantity # new_bid_qty
             ask_changed == b.cached_tob.best_ask # new_best_ask
                            \/ b.cached_tob.ask_quantity # new_ask_qty
             tob == [best_bid |-> new_best_bid, bid_quantity |-> new_bid_qty,
                     best_ask |-> new_best_ask, ask_quantity |-> new_ask_qty,
                     timestamp |-> timestamp]
         IN IF bid_changed \/ ask_changed
            THEN Emit([b EXCEPT !.cached_tob = tob], TopOfBookEvent(tob))
            ELSE b

WithLastAlways(flags, is_last_in_batch) == flags + LastInBatch

WithLast(flags, is_last_in_batch) == IF is_last_in_batch THEN flags + LastInBatch ELSE flags

\* ------------------------------------------------------ OrderBookL3 calls
deleteOrder(b, order_id, seq_num, is_last_in_batch) ==
    IF GateRejects(b.last_seq_num, seq_num) THEN Return(b, FALSE)
    ELSE
    LET b1 == [b EXCEPT !.last_seq_num = GateRecord(b.last_seq_num, seq_num)]
    IN IF order_id \notin DOMAIN b1.order_map THEN Return(b1, FALSE)
       ELSE
       LET ref == b1.order_map[order_id]
           o == b1.pool[ref]
           lv == getLevel(b1.levels, o.side, o.price)
           unmapped == [i \in DOMAIN b1.order_map \ {order_id} |-> b1.order_map[i]]
           freed == [r \in DOMAIN b1.pool \ {ref} |-> b1.pool[r]]
           order_flags == WithLast(PriceChanged + QuantityChanged, is_last_in_batch)
       IN IF lv.pos = 0
          THEN \* level missing: report the deletion with the invalid index
               Return([Emit(b1, OrderUpdateEvent(o, 0, o.timestamp, INVALID_INDEX,
                                                 order_flags, seq_num))
                          EXCEPT !.order_map = unmapped, !.pool = freed], FALSE)
          ELSE
          LET level == removeOrder(b1.levels[o.side][lv.pos], b1.pool, ref)
              level_total == level.total_quantity
              lvls1 == [b1.levels EXCEPT ![o.side][lv.pos] = level]
              rm == removeLevelIfEmpty(lvls1, o.side, o.price)
              level_change_flags ==
                  WithLast(QuantityChanged + (IF rm.removed THEN PriceChanged ELSE 0),
                           is_last_in_batch)
              b2 == [b1 EXCEPT !.levels = rm.levels, !.order_map = unmapped]
              b3 == Emit(b2, OrderUpdateEvent(o, 0, o.timestamp, lv.index,
                                              order_flags, seq_num))
              b4 == Emit(b3, PriceLevelUpdateEvent(o.side, o.price, level_total, o.timestamp,
                                                   lv.index, level_change_flags, seq_num))
              b5 == [b4 EXCEPT !.pool = freed]
          IN Return(notifyTopOfBookIfChanged(b5, o.timestamp, order_flags), TRUE)

\* order->price = new_price; order->quantity = new_quantity;
updateOrderFieldsRequeued(o, new_price, new_quantity) ==
    [o EXCEPT !.price = new_price, !.quantity = new_quantity, !.priority = o.priority + 1]

updateOrderFields(o, new_price, new_quantity) ==
    [o EXCEPT !.price = new_price, !.quantity = new_quantity]

modifyOrder(b, order_id, new_price, new_quantity, seq_num, is_last_in_batch) ==
    IF GateRejects(b.last_seq_num, seq_num) THEN Return(b, FALSE)
    ELSE
    LET b1 == [b EXCEPT !.last_seq_num = GateRecord(b.last_seq_num, seq_num)]
    IN IF order_id \notin DOMAIN b1.order_map THEN Return(b1, FALSE)
       ELSE IF new_quantity < 0 THEN Return(b1, FALSE)
       ELSE IF new_quantity = 0 THEN deleteOrder(b1, order_id, seq_num, is_last_in_batch)
       ELSE
       LET ref == b1.order_map[order_id]
           o == b1.pool[ref]
           timestamp == o.timestamp
           old_price == o.price
           old_quantity == o.quantity
           side == o.side
           price_changed == new_price # old_price
           quantity_changed == new_quantity # old_quantity
       IN IF ~price_changed /\ ~quantity_changed THEN Return(b1, TRUE)
          ELSE IF price_changed
          THEN
          LET old == getLevel(b1.levels, side, old_price)
              \* remove from the old level, if it exists, and report it
              lvlsA == IF old.pos = 0 THEN b1.levels
                       ELSE [b1.levels EXCEPT ![side][old.pos] =
                                removeOrder(b1.levels[side][old.pos], b1.pool, ref)]
              old_level_total == IF old.pos = 0 THEN 0
                                 ELSE lvlsA[side][old.pos].total_quantity
              rm == IF old.pos = 0 THEN [levels |-> lvlsA, removed |-> FALSE]
                    ELSE removeLevelIfEmpty(lvlsA, side, old_price)
              old_level_change_flags ==
                  QuantityChanged + (IF rm.removed THEN PriceChanged ELSE 0)
              b2 == IF old.pos = 0 THEN b1
                    ELSE Emit([b1 EXCEPT !.levels = rm.levels],
                              PriceLevelUpdateEvent(side, old_price, old_level_total, timestamp,
                                                    old.index, old_level_change_flags, seq_num))
              pool1 == [b2.pool EXCEPT
                          ![ref] = updateOrderFields(b2.pool[ref], new_price, new_quantity)]
              goc == getOrCreateLevel(b2.levels, side, new_price)
              new_level == insertOrder(goc.levels[side][goc.pos], pool1, ref)
              lvlsB == [goc.levels EXCEPT ![side][goc.pos] = new_level]
              order_flags ==
                  WithLast(PriceChanged + (IF quantity_changed THEN QuantityChanged ELSE 0),
                           is_last_in_batch)
              new_level_change_flags ==
                  WithLast(QuantityChanged + (IF goc.is_new THEN PriceChanged ELSE 0),
                           is_last_in_batch)
              b3 == [b2 EXCEPT !.pool = pool1, !.levels = lvlsB]
              b4 == Emit(b3, OrderUpdateEvent(pool1[ref], new_quantity, timestamp, goc.index,
                                              order_flags, seq_num))
              b5 == Emit(b4, PriceLevelUpdateEvent(side, new_price, new_level.total_quantity,
                                                   timestamp, goc.index,
                                                   new_level_change_flags, seq_num))
          IN Return(notifyTopOfBookIfChanged(b5, timestamp, order_flags), TRUE)
          ELSE
          LET goc == getOrCreateLevel(b1.levels, side, old_price)
              level == updateOrderQuantity(goc.levels[side][goc.pos], old_quantity, new_quantity)
              pool1 == [b1.pool EXCEPT ![ref].quantity = new_quantity]
              order_flags == WithLast(QuantityChanged, is_last_in_batch)
              level_change_flags ==
                  WithLast(QuantityChanged + (IF goc.is_new THEN PriceChanged ELSE 0),
                           is_last_in_batch)
              b2 == [b1 EXCEPT !.pool = pool1,
                               !.levels = [goc.levels EXCEPT ![side][goc.pos] = level]]
              b3 == Emit(b2, OrderUpdateEvent(pool1[ref], new_quantity, timestamp, goc.index,
                                              order_flags, seq_num))
              b4 == Emit(b3, PriceLevelUpdateEvent(side, old_price, level.total_quantity,
                                                   timestamp, goc.index,
                                                   level_change_flags, seq_num))
          IN Return(notifyTopOfBookIfChanged(b4, timestamp, order_flags), TRUE)

\* order_pool_.construct: the first free reference of the pool.
Allocate(p) == CHOOSE r \in Slots \ DOMAIN p : \A q \in Slots \ DOMAIN p : r <= q

\* if (order->side != side) { SLICK_ASSERT(false); return false; }
SideMismatchIgnored(o, side) == FALSE

SideMismatch(o, side) == o.side # side

addOrModifyOrder(b, order_id, side, price, quantity, timestamp, priority, seq_num, is_last_in_batch) ==
    IF GateRejects(b.last_seq_num, seq_num) THEN Return(b, FALSE)
    ELSE
    LET b1 == [b EXCEPT !.last_seq_num = GateRecord(b.last_seq_num, seq_num)]
    IN IF order_id \in DOMAIN b1.order_map
       THEN
       LET ref == b1.order_map[order_id]
           o == b1.pool[ref]
       IN IF SideMismatch(o, side) THEN Return(b1, FALSE)
          ELSE IF quantity <= 0
          THEN IF quantity = 0 THEN deleteOrder(b1, order_id, seq_num, is_last_in_batch)
               ELSE Return(b1, FALSE)
          ELSE IF o.price = price /\ o.quantity = quantity THEN Return(b1, TRUE)
          ELSE modifyOrder([b1 EXCEPT !.pool[ref].timestamp = timestamp],
                           order_id, price, quantity, seq_num, is_last_in_batch)
       ELSE IF quantity <= 0 THEN Return(b1, FALSE)
       ELSE
       LET ref == Allocate(b1.pool)
           o == [order_id |-> order_id, price |-> price, quantity |-> quantity,
                 side |-> side, timestamp |-> timestamp, priority |-> priority]
           pool1 == [r \in DOMAIN b1.pool \cup {ref} |->
                        IF r = ref THEN o ELSE b1.pool[r]]
           goc == getOrCreateLevel(b1.levels, side, price)
           level == insertOrder(goc.levels[side][goc.pos], pool1, ref)
           map1 == [i \in DOMAIN b1.order_map \cup {order_id} |->
                       IF i = order_id THEN ref ELSE b1.order_map[i]]
           order_flags == WithLast(PriceChanged + QuantityChanged, is_last_in_batch)
           level_change_flag ==
               WithLast(QuantityChanged + (IF goc.is_new THEN PriceChanged ELSE 0),
                        is_last_in_batch)
           b2 == [b1 EXCEPT !.pool = pool1, !.order_map = map1,
                            !.levels = [goc.levels EXCEPT ![side][goc.pos] = level]]
           b3 == Emit(b2, OrderUpdateEvent(o, quantity, timestamp, goc.index,
                                           order_flags, seq_num))
           b4 == Emit(b3, PriceLevelUpdateEvent(side, price, level.total_quantity, timestamp,
                                                goc.index, level_change_flag, seq_num))
       IN Return(notifyTopOfBookIfChanged(b4, timestamp, order_flags), TRUE)

addOrderAsUpsert(b, order_id, side, price, quantity, timestamp, priority, seq_num, is_last_in_batch) ==
    addOrModifyOrder(b, order_id, side, price, quantity, timestamp,
                     IF priority = 0 THEN timestamp ELSE priority, seq_num, is_last_in_batch)

addOrder(b, order_id, side, price, quantity, timestamp, priority, seq_num, is_last_in_batch) ==
    IF GateRejects(b.last_seq_num, seq_num) THEN Return(b, FALSE)
    ELSE
    LET b1 == [b EXCEPT !.last_seq_num = GateRecord(b.last_seq_num, seq_num)]
        actual_priority == IF priority = 0 THEN timestamp ELSE priority
    IN IF order_id \in DOMAIN b1.order_map THEN Return(b1, FALSE)
       ELSE addOrModifyOrder(b1, order_id, side, price, quantity, timestamp,
                             actual_priority, seq_num, is_last_in_batch)

executeOrderAsDelete(b, order_id, executed_quantity, seq_num, is_last_in_batch) ==
    deleteOrder(b, order_id, seq_num, is_last_in_batch)

executeOrder(b, order_id, executed_quantity, seq_num, is_last_in_batch) ==
    IF GateRejects(b.last_seq_num, seq_num) THEN Return(b, FALSE)
    ELSE
    LET b1 == [b EXCEPT !.last_seq_num = GateRecord(b.last_seq_num, seq_num)]
    IN IF order_id \notin DOMAIN b1.order_map THEN Return(b1, FALSE)
       ELSE
       LET o == b1.pool[b1.order_map[order_id]]
           remaining == o.quantity - executed_quantity
       IN IF executed_quantity <= 0 \/ executed_quantity > o.quantity THEN Return(b1, FALSE)
          ELSE IF remaining = 0 THEN deleteOrder(b1, order_id, seq_num, is_last_in_batch)
          ELSE modifyOrder(b1, order_id, o.price, remaining, seq_num, is_last_in_batch)

\* clearSide: every order of the side leaves order_map_, its queue and the pool;
\* then the side's level map is cleared. No event, no top-of-book publication.
RECURSIVE Flatten(_)
Flatten(lv) == IF lv = <<>> THEN <<>> ELSE Head(lv).orders \o Flatten(Tail(lv))

SeqRange(s) == {s[i] : i \in 1..Len(s)}

clearSideLevelsOnly(b, side) == [b EXCEPT !.levels = [b.levels EXCEPT ![side] = <<>>]]

clearSide(b, side) ==
    LET refs == SeqRange(Flatten(b.levels[side]))
        ids == {b.pool[r].order_id : r \in refs}
    IN [b EXCEPT !.order_map = [i \in DOMAIN b.order_map \ ids |-> b.order_map[i]],
                 !.pool = [r \in DOMAIN b.pool \ refs |-> b.pool[r]],
                 !.levels = [b.levels EXCEPT ![side] = <<>>]]

clear(b) == clearSide(clearSide(b, "Buy"), "Sell")

\* emitSnapshot: onSnapshotBegin, one OrderUpdate per resting order (bids
\* best level first, each queue head to tail, then asks) carrying the
\* snapshot's timestamp, the level's index and PriceChanged | QuantityChanged,
\* then onSnapshotEnd. The events carry no sequence number (0).
SnapshotMark(type, seq_num, timestamp) ==
    [type |-> type, seq_num |-> seq_num, timestamp |-> timestamp]

RECURSIVE SnapshotOrdersFrom(_, _, _, _)
SnapshotOrdersFrom(lv, p, timestamp, i) ==
    IF i > Len(lv) THEN <<>>
    ELSE [j \in 1..Len(lv[i].orders) |->
             OrderUpdateEvent(p[lv[i].orders[j]], p[lv[i].orders[j]].quantity, timestamp,
                              i - 1, PriceChanged + QuantityChanged, 0)]
         \o SnapshotOrdersFrom(lv, p, timestamp, i + 1)

emitSnapshotL3(b, timestamp) ==
    [b EXCEPT !.ev = <<SnapshotMark("SnapshotBegin", b.last_seq_num, timestamp)>>
                     \o SnapshotOrdersFrom(b.levels["Buy"], b.pool, timestamp, 1)
                     \o SnapshotOrdersFrom(b.levels["Sell"], b.pool, timestamp, 1)
                     \o <<SnapshotMark("SnapshotEnd", b.last_seq_num, timestamp)>>]

\* getTopOfBook of the L3 book: computed from the level maps on every call.
getTopOfBookL3(lvls, p) ==
    LET bid_ts == IF lvls["Buy"] = <<>> \/ lvls["Buy"][1].orders = <<>> THEN 0
                  ELSE p[lvls["Buy"][1].orders[1]].timestamp
        ask_ts == IF lvls["Sell"] = <<>> \/ lvls["Sell"][1].orders = <<>> THEN 0
                  ELSE p[lvls["Sell"][1].orders[1]].timestamp
    IN [best_bid |-> BestPrice(lvls, "Buy"), bid_quantity |-> BestQty(lvls, "Buy"),
        best_ask |-> BestPrice(lvls, "Sell"), ask_quantity |-> BestQty(lvls, "Sell"),
        timestamp |-> IF ask_ts > bid_ts THEN ask_ts ELSE bid_ts]

\* ------------------------------------------------------ LevelContainer (L2)
PriceLevelL2(price, quantity, timestamp) ==
    [price |-> price, quantity |-> quantity, timestamp |-> timestamp]

\* find: lower_bound, then the price must match; 0 stands for end().
findFront(lv, side, price) == IF lv = <<>> THEN 0 ELSE 1

find(lv, side, price) ==
    LET at == LowerBound(side, lv, price)
    IN IF at <= Len(lv) /\ lv[at].price = price THEN at ELSE 0

insertOrUpdateAsInserted(lv, side, price, quantity, timestamp) ==
    LET at == LowerBound(side, lv, price)
    IN [levels |-> IF at <= Len(lv) /\ lv[at].price = price
                   THEN [lv EXCEPT ![at].quantity = quantity, ![at].timestamp = timestamp]
                   ELSE InsertAt(lv, at, PriceLevelL2(price, quantity, timestamp)),
        pos |-> at, inserted |-> TRUE]

insertOrUpdate(lv, side, price, quantity, timestamp) ==
    LET at == LowerBound(side, lv, price)
    IN IF at <= Len(lv) /\ lv[at].price = price
       THEN [levels |-> [lv EXCEPT ![at].quantity = quantity, ![at].timestamp = timestamp],
             pos |-> at, inserted |-> FALSE]
       ELSE [levels |-> InsertAt(lv, at, PriceLevelL2(price, quantity, timestamp)),
             pos |-> at, inserted |-> TRUE]

\* erase(price): (levels, found)
erase(lv, side, price) ==
    LET at == find(lv, side, price)
    IN IF at # 0 THEN [levels |-> RemoveAt(lv, at), found |-> TRUE]
       ELSE [levels |-> lv, found |-> FALSE]

\* best(): the front level, or the default-constructed level for nullptr.
best(lv) == IF lv = <<>> THEN PriceLevelL2(0, 0, 0) ELSE lv[1]

\* getLevels(depth): the first depth levels, all of them when depth is 0.
getLevels(lv, depth) ==
    IF depth = 0 \/ depth >= Len(lv) THEN lv ELSE SubSeq(lv, 1, depth)

\* ------------------------------------------------------ OrderBookL2 calls
\* A book value b carries the fields of OrderBookL2 plus ev and ret.
notifyTopOfBookIfChangedL2(b, timestamp) ==
    LET bid == best(b.sides["Buy"])
        ask == best(b.sides["Sell"])
        bid_changed == b.cached_tob.best_bid # bid.price
                       \/ b.cached_tob.bid_quantity # bid.quantity
        ask_changed == b.cached_tob.best_ask # ask.price
                       \/ b.cached_tob.ask_quantity # ask.quantity
        tob == [best_bid |-> bid.price, bid_quantity |-> bid.quantity,
                best_ask |-> ask.price, ask_quantity |-> ask.quantity,
                timestamp |-> timestamp]
    IN IF bid_changed \/ ask_changed
       THEN Emit([b EXCEPT !.tob_seq = b.tob_seq + 2,
                           !.cached_tob = tob,
                           !.cached_best = [Buy |-> bid, Sell |-> ask]],
                 TopOfBookEvent(tob))
       ELSE b

\* The tail shared by both branches of updateLevel:
\* if (change_starting_index_ == 0 && is_last_in_batch) { notify; reset }
publishIfTopTouched(b, timestamp, is_last_in_batch) ==
    IF b.change_starting_index = 0 /\ is_last_in_batch
    THEN [notifyTopOfBookIfChangedL2(b, timestamp)
             EXCEPT !.change_starting_index = INVALID_INDEX]
    ELSE b

updateLevel(b, side, price, quantity, timestamp, seq_num, is_last_in_batch) ==
    IF GateRejects(b.last_seq_num, seq_num) THEN b
    ELSE
    LET b1 == [b EXCEPT !.last_seq_num = GateRecord(b.last_seq_num, seq_num)]
    IN IF quantity = 0
       THEN
       LET it == find(b1.sides[side], side, price)
           level_idx == it - 1
           change_flags == WithLast(PriceChanged + QuantityChanged, is_last_in_batch)
           b2 == [b1 EXCEPT
                    !.change_starting_index = Min(b1.change_starting_index, level_idx),
                    !.sides[side] = RemoveAt(b1.sides[side], it)]
           b3 == Emit(b2, PriceLevelUpdateEvent(side, price, 0, timestamp, level_idx,
                                                change_flags, seq_num))
       IN IF it = 0 THEN b1
          ELSE publishIfTopTouched(b3, timestamp, is_last_in_batch)
       ELSE
       LET ins == insertOrUpdate(b1.sides[side], side, price, quantity, timestamp)
           level_idx == ins.pos - 1
           change_flags ==
               WithLast(IF ins.inserted THEN PriceChanged + QuantityChanged
                        ELSE QuantityChanged, is_last_in_batch)
           b2 == [b1 EXCEPT
                    !.change_starting_index = Min(b1.change_starting_index, level_idx),
                    !.sides[side] = ins.levels]
           b3 == Emit(b2, PriceLevelUpdateEvent(side, price, quantity, timestamp, level_idx,
                                                change_flags, seq_num))
       IN publishIfTopTouched(b3, timestamp, is_last_in_batch)

deleteLevel(b, side, price) ==
    LET e == erase(b.sides[side], side, price)
    IN Return([b EXCEPT !.sides[side] = e.levels], e.found)

clearSideL2(b, side) == [b EXCEPT !.sides[side] = <<>>]

clearL2(b) == [b EXCEPT !.sides = [s \in Sides |-> <<>>]]

SnapshotLevels(lv, side, timestamp) ==
    [i \in 1..Len(lv) |->
        PriceLevelUpdateEvent(side, lv[i].price, lv[i].quantity, timestamp, i - 1,
                              PriceChanged + QuantityChanged, 0)]

emitSnapshot(b, timestamp) ==
    [b EXCEPT !.ev = <<SnapshotMark("SnapshotBegin", b.last_seq_num, timestamp)>>
                     \o SnapshotLevels(b.sides["Buy"], "Buy", timestamp)
                     \o SnapshotLevels(b.sides["Sell"], "Sell", timestamp)
                     \o <<SnapshotMark("SnapshotEnd", b.last_seq_num, timestamp)>>]

\* getTopOfBook with no publication in flight: tob_seq_ is even, both loads
\* agree, and the copy of cached_tob_ is returned.
getTopOfBook(b) == b.cached_tob

\* ------------------------------------------------------------ the calls
TobOfLevels(lvls) ==
    <<BestPrice(lvls, "Buy"), BestQty(lvls, "Buy"),
      BestPrice(lvls, "Sell"), BestQty(lvls, "Sell")>>

TobOfSides(sd) ==
    <<best(sd["Buy"]).price, best(sd["Buy"]).quantity,
      best(sd["Sell"]).price, best(sd["Sell"]).quantity>>

\* The best levels the book actually holds, as (bid, bid qty, ask, ask qty).
TobOf(b) == IF "levels" \in DOMAIN b THEN TobOfLevels(b.levels) ELSE TobOfSides(b.sides)

ActualTob == IF scope.book = "L3" THEN TobOfLevels(levels) ELSE TobOfSides(sides)

TobValues(t) == <<t.best_bid, t.bid_quantity, t.best_ask, t.ask_quantity>>

TobEvents(ev) == SelectSeq(ev, LAMBDA e : e.type = "TopOfBookUpdate")

BookL3 ==
    [levels |-> levels, pool |-> pool, order_map |-> order_map, cached_tob |-> cached_tob,
     last_seq_num |-> last_seq_num, ev |-> <<>>, ret |-> FALSE]

BookL2 ==
    [sides |-> sides, cached_best |-> cached_best, tob_seq |-> tob_seq,
     change_starting_index |-> change_starting_index, cached_tob |-> cached_tob,
     last_seq_num |-> last_seq_num, ev |-> <<>>, ret |-> FALSE]

\* What an onlooker of the calls and of the observer events records. A call
\* opens a new batch when the call before it closed one; start holds the best
\* levels at the opening of the batch while the batch is open.
HistAfter(b, seq_num, is_last_in_batch) ==
    LET opens == result.is_last
        passed == ~(seq_num > 0 /\ seq_num < hist.maxAccepted)
        tobs == TobEvents(b.ev)
    IN [maxAccepted |-> IF passed /\ seq_num > hist.maxAccepted THEN seq_num
                        ELSE hist.maxAccepted,
        tobCount |-> (IF opens THEN 0 ELSE hist.tobCount) + Len(tobs),
        start |-> IF is_last_in_batch THEN <<0, 0, 0, 0>>
                  ELSE IF opens THEN ActualTob ELSE hist.start,
        changed |-> TobOf(b) # (IF opens THEN ActualTob ELSE hist.start),
        touched0 |-> (~opens /\ hist.touched0)
                     \/ \E i \in 1..Len(b.ev) : /\ b.ev[i].type = "PriceLevelUpdate"
                                                /\ b.ev[i].level_index = 0,
        differs |-> TobOf(b) # hist.published,
        published |-> IF tobs = <<>> THEN hist.published
                      ELSE TobValues(tobs[Len(tobs)])]

\* The name and the arguments of a call, as the caller wrote them; result.again
\* tells that the call repeats, argument for argument, the call before it and
\* that the call before it returned true.
NoCall == [op |-> "none"]

CallOf(op, order_id, side, price, quantity, timestamp, priority, seq_num, is_last_in_batch) ==
    IF scope \in ScopesCalls
    THEN [op |-> op, order_id |-> order_id, side |-> side, price |-> price,
          quantity |-> quantity, timestamp |-> timestamp, priority |-> priority,
          seq_num |-> seq_num, is_last_in_batch |-> is_last_in_batch]
    ELSE NoCall

Call(b, returns, seq_num, is_last_in_batch, call) ==
    /\ cached_tob' = b.cached_tob
    /\ last_seq_num' = b.last_seq_num
    /\ events' = b.ev
    /\ result' = [returns |-> returns, ret |-> b.ret, is_last |-> is_last_in_batch,
                  stale |-> seq_num > 0 /\ seq_num < last_seq_num, call |-> call,
                  again |-> call # NoCall /\ call = result.call /\ result.ret]
    /\ hist' = HistAfter(b, seq_num, is_last_in_batch)
    /\ UNCHANGED <<scope, writer, reader>>
    /\ UNCHANGED mgrvars

\* clear_side, clear, delete_level and emit_snapshot carry no batch flag and no
\* sequence number.
Reset(b, returns) ==
    /\ cached_tob' = b.cached_tob
    /\ last_seq_num' = b.last_seq_num
    /\ events' = b.ev
    /\ result' = [returns |-> returns, ret |-> b.ret, is_last |-> result.is_last,
                  stale |-> FALSE, call |-> NoCall, again |-> FALSE]
    /\ UNCHANGED <<scope, hist, writer, reader>>
    /\ UNCHANGED mgrvars

StoreL3(b) ==
    /\ levels' = b.levels
    /\ pool' = b.pool
    /\ order_map' = b.order_map
    /\ UNCHANGED l2vars

StoreL2(b) ==
    /\ b.tob_seq <= MaxTobSeq
    /\ sides' = b.sides
    /\ cached_best' = b.cached_best
    /\ tob_seq' = b.tob_seq
    /\ change_starting_index' = b.change_starting_index
    /\ UNCHANGED l3vars

L3AddOrModifyOrder ==
    /\ scope.book = "L3"
    /\ \E order_id \in scope.ids, side \in scope.sides, price \in scope.prices,
          quantity \in scope.qtys, timestamp \in scope.tss, priority \in scope.prios,
          seq_num \in scope.seqs, is_last_in_batch \in scope.lasts :
          \E b \in {addOrModifyOrder(BookL3, order_id, side, price, quantity, timestamp,
                                    priority, seq_num, is_last_in_batch)} :
             StoreL3(b) /\ Call(b, "bool", seq_num, is_last_in_batch,
                                CallOf("addOrModifyOrder", order_id, side, price, quantity,
                                       timestamp, priority, seq_num, is_last_in_batch))

L3AddOrder ==
    /\ scope.book = "L3"
    /\ \E order_id \in scope.ids, side \in scope.sides, price \in scope.prices,
          quantity \in scope.qtys, timestamp \in scope.tss, priority \in scope.prios,
          seq_num \in scope.seqs, is_last_in_batch \in scope.lasts :
          \E b \in {addOrder(BookL3, order_id, side, price, quantity, timestamp,
                            priority, seq_num, is_last_in_batch)} :
             StoreL3(b) /\ Call(b, "bool", seq_num, is_last_in_batch,
                                CallOf("addOrder", order_id, side, price, quantity,
                                       timestamp, priority, seq_num, is_last_in_batch))

L3ModifyOrder ==
    /\ scope.book = "L3"
    /\ \E order_id \in scope.ids, new_price \in scope.prices, new_quantity \in scope.qtys,
          seq_num \in scope.seqs, is_last_in_batch \in scope.lasts :
          \E b \in {modifyOrder(BookL3, order_id, new_price, new_quantity, seq_num,
                               is_last_in_batch)} :
             StoreL3(b) /\ Call(b, "bool", seq_num, is_last_in_batch,
                                CallOf("modifyOrder", order_id, "", new_price, new_quantity,
                                       0, 0, seq_num, is_last_in_batch))

L3DeleteOrder ==
    /\ scope.book = "L3"
    /\ \E order_id \in scope.ids, seq_num \in scope.seqs, is_last_in_batch \in scope.lasts :
          \E b \in {deleteOrder(BookL3, order_id, seq_num, is_last_in_batch)} :
             StoreL3(b) /\ Call(b, "bool", seq_num, is_last_in_batch,
                                CallOf("deleteOrder", order_id, "", 0, 0, 0, 0, seq_num,
                                       is_last_in_batch))

L3ExecuteOrder ==
    /\ scope.book = "L3"
    /\ \E order_id \in scope.ids, executed_quantity \in scope.qtys,
          seq_num \in scope.seqs, is_last_in_batch \in scope.lasts :
          \E b \in {executeOrder(BookL3, order_id, executed_quantity, seq_num,
                                is_last_in_batch)} :
             StoreL3(b) /\ Call(b, "bool", seq_num, is_last_in_batch,
                                CallOf("executeOrder", order_id, "", 0, executed_quantity,
                                       0, 0, seq_num, is_last_in_batch))

L3ClearSide ==
    /\ scope.book = "L3" /\ scope.resets
    /\ \E side \in Sides :
          \E b \in {clearSide(BookL3, side)} : StoreL3(b) /\ Reset(b, "void")

L3Clear ==
    /\ scope.book = "L3" /\ scope.resets
    /\ \E b \in {clear(BookL3)} : StoreL3(b) /\ Reset(b, "void")

L3EmitSnapshot ==
    /\ scope.book = "L3"
    /\ \E timestamp \in scope.tss :
          \E b \in {emitSnapshotL3(BookL3, timestamp)} : StoreL3(b) /\ Reset(b, "snapshot")

L2UpdateLevel ==
    /\ scope.book = "L2"
    /\ \E side \in scope.sides, price \in scope.prices, quantity \in scope.qtys,
          timestamp \in scope.tss, seq_num \in scope.seqs, is_last_in_batch \in scope.lasts :
          \E b \in {updateLevel(BookL2, side, price, quantity, timestamp, seq_num,
                               is_last_in_batch)} :
             StoreL2(b) /\ Call(b, "void", seq_num, is_last_in_batch,
                                [op |-> "updateLevel", side |-> side, price |-> price,
                                 quantity |-> quantity, timestamp |-> timestamp,
                                 seq_num |-> seq_num,
                                 is_last_in_batch |-> is_last_in_batch])

L2DeleteLevel ==
    /\ scope.book = "L2" /\ scope.resets
    /\ \E side \in scope.sides, price \in scope.prices :
          \E b \in {deleteLevel(BookL2, side, price)} : StoreL2(b) /\ Reset(b, "bool")

L2ClearSide ==
    /\ scope.book = "L2" /\ scope.resets
    /\ \E side \in Sides :
          \E b \in {clearSideL2(BookL2, side)} : StoreL2(b) /\ Reset(b, "void")

L2Clear ==
    /\ scope.book = "L2" /\ scope.resets
    /\ \E b \in {clearL2(BookL2)} : StoreL2(b) /\ Reset(b, "void")

L2EmitSnapshot ==
    /\ scope.book = "L2"
    /\ \E timestamp \in scope.tss :
          \E b \in {emitSnapshot(BookL2, timestamp)} : StoreL2(b) /\ Reset(b, "snapshot")

\* ------------------------------------------------------------ the books
Idle == [pc |-> "idle"]

\* The manager's callers and the symbols they name.
Threads == 1..NumThreads

Symbols == {1, 2}

NullBook == [symbol |-> 0, serial |-> 0]

IdleThread(calls) ==
    [pc |-> "idle", symbol |-> 0, book |-> NullBook, ret |-> FALSE, missed |-> FALSE,
     count |-> 0, symbols |-> {}, calls |-> calls]

Init ==
    /\ scope \in L3Scopes \cup L2Scopes
    /\ levels = [s \in Sides |-> <<>>]
    /\ pool = <<>>
    /\ order_map = <<>>
    /\ sides = [s \in Sides |-> <<>>]
    /\ cached_best = [s \in Sides |-> PriceLevelL2(0, 0, 0)]
    /\ tob_seq = 0
    /\ change_starting_index = ChangeStartingIndexInit
    /\ cached_tob = EmptyTob
    /\ last_seq_num = 0
    /\ events = <<>>
    /\ result = [returns |-> "void", ret |-> FALSE, is_last |-> TRUE, stale |-> FALSE,
                 call |-> NoCall, again |-> FALSE]
    /\ hist = [maxAccepted |-> 0, tobCount |-> 0, start |-> <<0, 0, 0, 0>>,
               changed |-> FALSE, touched0 |-> FALSE,
               differs |-> FALSE, published |-> <<0, 0, 0, 0>>]
    /\ writer = Idle
    /\ reader = Idle
    /\ symbol_map = <<>>
    /\ mutex = [exclusive |-> 0, shared |-> {}]
    /\ threads = [t \in Threads |-> IdleThread(0)]
    /\ registry = [made |-> [s \in Symbols |-> 0], requested |-> {}]

Next ==
    \/ L3AddOrModifyOrder
    \/ L3AddOrder
    \/ L3ModifyOrder
    \/ L3DeleteOrder
    \/ L3ExecuteOrder
    \/ L3ClearSide
    \/ L3Clear
    \/ L2UpdateLevel
    \/ L2DeleteLevel
    \/ L2ClearSide
    \/ L2Clear
    \/ L3EmitSnapshot
    \/ L2EmitSnapshot

Spec == Init /\ [][Next]_vars

\* ------------------------------------------------------------ the seqlock
\* One writer thread publishes the top of book while one reader thread runs
\* getTopOfBook. tob_seq_ is atomic; the fields of cached_tob_ and the
\* cached best levels are plain objects, written and read one at a time.
\* A release store keeps earlier accesses before it but lets later plain
\* stores pass it, and an acquire load keeps later accesses after it but lets
\* earlier plain loads fall behind it: the odd store may take effect anywhere
\* in the writes before the even store, and the second load of the counter
\* anywhere in the copy after the first load.
ScopeSeqlock ==
    [book |-> "L2", ids |-> {}, sides |-> {"Buy"}, prices |-> 1..MaxPublications,
     qtys |-> 1..MaxPublications, tss |-> 1..MaxPublications, prios |-> {}, seqs |-> {0},
     lasts |-> {TRUE}, resets |-> FALSE]

TobFields == <<"best_bid", "bid_quantity", "best_ask", "ask_quantity", "timestamp">>

\* The plain stores of one publication, in program order.
PublicationStores == TobFields \o <<"cached_best_bid", "cached_best_ask">>

\* The writer enters update_level with a better bid: the level lands at index
\* 0, its PriceLevelUpdate goes out, and notifyTopOfBookIfChanged finds the
\* top of book changed and loads the counter.
WriterBegin ==
    /\ writer.pc = "idle"
    /\ \E n \in scope.prices :
          LET b == updateLevel(BookL2, "Buy", n, n, n, 0, TRUE)
          IN /\ n = (tob_seq \div 2) + 1
             /\ b.tob_seq # tob_seq
             /\ sides' = b.sides
             /\ events' = SelectSeq(b.ev, LAMBDA e : e.type = "PriceLevelUpdate")
             /\ writer' = [pc |-> "publishing", seq |-> tob_seq, odd |-> FALSE, next |-> 1,
                           target |-> b,
                           published |-> writer.published \cup {b.cached_tob},
                           publishedBest |-> writer.publishedBest \cup {b.cached_best}]
    /\ UNCHANGED <<scope, levels, pool, order_map, cached_best, tob_seq,
                   change_starting_index, cached_tob, last_seq_num, result, hist, reader>>
    /\ UNCHANGED mgrvars

\* tob_seq_.store(seq + 1, release)
WriterStoreOdd ==
    /\ writer.pc = "publishing"
    /\ ~writer.odd
    /\ tob_seq' = writer.seq + 1
    /\ writer' = [writer EXCEPT !.odd = TRUE]
    /\ UNCHANGED <<scope, levels, pool, order_map, sides, cached_best,
                   change_starting_index, cached_tob, last_seq_num, events, result, hist,
                   reader>>
    /\ UNCHANGED mgrvars

\* The next plain store of the publication.
WriterWrite ==
    /\ writer.pc = "publishing"
    /\ writer.next <= Len(PublicationStores)
    /\ LET f == PublicationStores[writer.next]
       IN /\ cached_tob' = IF f \in DOMAIN cached_tob
                           THEN [cached_tob EXCEPT ![f] = writer.target.cached_tob[f]]
                           ELSE cached_tob
          /\ cached_best' = IF f = "cached_best_bid"
                            THEN [cached_best EXCEPT !["Buy"] = writer.target.cached_best["Buy"]]
                            ELSE IF f = "cached_best_ask"
                            THEN [cached_best EXCEPT !["Sell"] = writer.target.cached_best["Sell"]]
                            ELSE cached_best
    /\ writer' = [writer EXCEPT !.next = writer.next + 1]
    /\ UNCHANGED <<scope, levels, pool, order_map, sides, tob_seq, change_starting_index,
                   last_seq_num, events, result, hist, reader>>
    /\ UNCHANGED mgrvars

\* tob_seq_.store(seq + 2, release), then the observers are notified and
\* update_level resets change_starting_index_.
WriterStoreEven ==
    /\ writer.pc = "publishing"
    /\ writer.odd
    /\ writer.next > Len(PublicationStores)
    /\ tob_seq' = writer.seq + 2
    /\ events' = writer.target.ev
    /\ change_starting_index' = writer.target.change_starting_index
    /\ writer' = [pc |-> "idle", published |-> writer.published,
                  publishedBest |-> writer.publishedBest]
    /\ UNCHANGED <<scope, levels, pool, order_map, sides, cached_best, cached_tob,
                   last_seq_num, result, hist, reader>>
    /\ UNCHANGED mgrvars

ReaderUnchanged ==
    /\ UNCHANGED <<scope, levels, pool, order_map, sides, cached_best, tob_seq,
                   change_starting_index, cached_tob, last_seq_num, events, result, hist,
                   writer>>
    /\ UNCHANGED mgrvars

\* The loop condition of the readers: do { ... } while (seq1 != seq2).
SeqNeverUnchanged(seq1, seq2) == FALSE

SeqUnchanged(seq1, seq2) == seq1 = seq2

\* A reader enters getTopOfBook.
ReaderCall ==
    /\ reader.pc \in {"idle", "done", "best_done"}
    /\ reader' = [pc |-> "load1", tob |-> EmptyTob]
    /\ ReaderUnchanged

\* seq1 = tob_seq_.load(acquire); spin while it is odd.
ReaderLoadSeq1 ==
    /\ reader.pc = "load1"
    /\ reader' = IF tob_seq % 2 = 1 THEN reader
                 ELSE [pc |-> "copy", seq1 |-> tob_seq, next |-> 1, loaded2 |-> FALSE,
                       seq2 |-> 0, tob |-> reader.tob]
    /\ ReaderUnchanged

\* tob = cached_tob_, one field at a time.
ReaderCopyField ==
    /\ reader.pc = "copy"
    /\ reader.next <= Len(TobFields)
    /\ LET f == TobFields[reader.next]
       IN reader' = [reader EXCEPT !.tob[f] = cached_tob[f], !.next = reader.next + 1]
    /\ ReaderUnchanged

\* seq2 = tob_seq_.load(acquire)
ReaderLoadSeq2 ==
    /\ reader.pc = "copy"
    /\ ~reader.loaded2
    /\ reader' = [reader EXCEPT !.loaded2 = TRUE, !.seq2 = tob_seq]
    /\ ReaderUnchanged

\* while (seq1 != seq2); return tob;
ReaderCompare ==
    /\ reader.pc = "copy"
    /\ reader.loaded2
    /\ reader.next > Len(TobFields)
    /\ reader' = IF SeqUnchanged(reader.seq1, reader.seq2)
                 THEN [pc |-> "done", tob |-> reader.tob]
                 ELSE [pc |-> "load1", tob |-> reader.tob]
    /\ ReaderUnchanged

\* What the caller of getBestBid / getBestAsk ends up with: nullptr, or the
\* fields it reads through the returned pointer.
LevelFields == <<"price", "quantity", "timestamp">>

NullLevel == [null |-> TRUE, price |-> 0, quantity |-> 0, timestamp |-> 0]

BestTobField(side) == IF side = "Buy" THEN "best_bid" ELSE "best_ask"

\* A reader enters getBestBid (side Buy) or getBestAsk (side Sell).
ReaderCallBest ==
    /\ reader.pc \in {"idle", "done", "best_done"}
    /\ \E side \in Sides :
          reader' = [pc |-> "best_load1", side |-> side, tob |-> EmptyTob, level |-> NullLevel]
    /\ ReaderUnchanged

\* seq1 = tob_seq_.load(acquire); spin while it is odd.
ReaderBestLoadSeq1 ==
    /\ reader.pc = "best_load1"
    /\ reader' = IF tob_seq % 2 = 1 THEN reader
                 ELSE [reader EXCEPT !.pc = "best_check"] @@
                      [seq1 |-> tob_seq, checked |-> FALSE, loaded2 |-> FALSE, seq2 |-> 0]
    /\ ReaderUnchanged

\* if (cached_tob_.best_bid == 0) return nullptr;
ReaderBestCheck ==
    /\ reader.pc = "best_check"
    /\ ~reader.checked
    /\ reader' = IF cached_tob[BestTobField(reader.side)] = 0
                 THEN [pc |-> "best_done", side |-> reader.side, tob |-> EmptyTob,
                       level |-> NullLevel]
                 ELSE [reader EXCEPT !.checked = TRUE]
    /\ ReaderUnchanged

\* seq2 = tob_seq_.load(acquire)
ReaderBestLoadSeq2 ==
    /\ reader.pc = "best_check"
    /\ ~reader.loaded2
    /\ reader' = [reader EXCEPT !.loaded2 = TRUE, !.seq2 = tob_seq]
    /\ ReaderUnchanged

\* while (seq1 != seq2); return &cached_best_bid_;
ReaderBestCompare ==
    /\ reader.pc = "best_check"
    /\ reader.checked
    /\ reader.loaded2
    /\ reader' = IF SeqUnchanged(reader.seq1, reader.seq2)
                 THEN [pc |-> "best_deref", side |-> reader.side, tob |-> EmptyTob,
                       level |-> [NullLevel EXCEPT !.null = FALSE], next |-> 1]
                 ELSE [pc |-> "best_load1", side |-> reader.side, tob |-> EmptyTob,
                       level |-> NullLevel]
    /\ ReaderUnchanged

\* The caller reads the level through the pointer it was handed, one field
\* at a time.
ReaderBestRead ==
    /\ reader.pc = "best_deref"
    /\ LET f == LevelFields[reader.next]
       IN reader' = [reader EXCEPT !.level[f] = cached_best[reader.side][f],
                                   !.next = reader.next + 1,
                                   !.pc = IF reader.next = Len(LevelFields)
                                          THEN "best_done" ELSE "best_deref"]
    /\ ReaderUnchanged

InitSeqlock ==
    /\ scope = ScopeSeqlock
    /\ levels = [s \in Sides |-> <<>>]
    /\ pool = <<>>
    /\ order_map = <<>>
    /\ sides = [s \in Sides |-> <<>>]
    /\ cached_best = [s \in Sides |-> PriceLevelL2(0, 0, 0)]
    /\ tob_seq = 0
    /\ change_starting_index = ChangeStartingIndexInit
    /\ cached_tob = EmptyTob
    /\ last_seq_num = 0
    /\ events = <<>>
    /\ result = [returns |-> "void", ret |-> FALSE, is_last |-> TRUE, stale |-> FALSE,
                 call |-> NoCall, again |-> FALSE]
    /\ hist = [maxAccepted |-> 0, tobCount |-> 0, start |-> <<0, 0, 0, 0>>,
               changed |-> FALSE, touched0 |-> FALSE,
               differs |-> FALSE, published |-> <<0, 0, 0, 0>>]
    /\ writer = [pc |-> "idle", published |-> {EmptyTob},
                 publishedBest |-> {[s \in Sides |-> PriceLevelL2(0, 0, 0)]}]
    /\ reader = [pc |-> "idle", tob |-> EmptyTob]
    /\ symbol_map = <<>>
    /\ mutex = [exclusive |-> 0, shared |-> {}]
    /\ threads = [t \in Threads |-> IdleThread(0)]
    /\ registry = [made |-> [s \in Symbols |-> 0], requested |-> {}]

NextSeqlock ==
    \/ WriterBegin
    \/ WriterStoreOdd
    \/ WriterWrite
    \/ WriterStoreEven
    \/ ReaderCall
    \/ ReaderLoadSeq1
    \/ ReaderCopyField
    \/ ReaderLoadSeq2
    \/ ReaderCompare
    \/ ReaderCallBest
    \/ ReaderBestLoadSeq1
    \/ ReaderBestCheck
    \/ ReaderBestLoadSeq2
    \/ ReaderBestCompare
    \/ ReaderBestRead

SpecSeqlock == InitSeqlock /\ [][NextSeqlock]_vars

\* The reader thread is scheduled fairly: a step of the call it is in is
\* eventually taken when one stays possible. Nothing is assumed of the writer,
\* which may be suspended anywhere, inside a publication included.
SpecSeqlockReaderFair ==
    /\ SpecSeqlock
    /\ WF_vars(\/ ReaderLoadSeq1 \/ ReaderCopyField \/ ReaderLoadSeq2 \/ ReaderCompare
               \/ ReaderBestLoadSeq1 \/ ReaderBestCheck \/ ReaderBestLoadSeq2
               \/ ReaderBestCompare)

\* ------------------------------------------------------------ the manager
\* OrderBookManager: symbol_map_ under mutex_. Each thread runs one call at a
\* time; taking the lock is a step of its own, and what a call does while it
\* holds the lock is one step that ends with the lock released.
ScopeManager(removes) ==
    [book |-> "Manager", ids |-> Symbols, sides |-> {}, prices |-> {}, qtys |-> {},
     tss |-> {}, prios |-> {}, seqs |-> {}, lasts |-> {}, resets |-> removes]

\* symbol_map_.find(symbol) != symbol_map_.end()
hasSymbol(map, symbol) == symbol \in DOMAIN map

getOrderBook(map, symbol) == IF symbol \in DOMAIN map THEN map[symbol] ELSE NullBook

symbolCount(map) == Cardinality(DOMAIN map)

\* The second find of getOrCreateOrderBook, made under the exclusive lock.
FoundOnRecheckNever(map, symbol) == FALSE

FoundOnRecheck(map, symbol) == symbol \in DOMAIN map

\* emplace inserts only when the key is absent.
emplace(map, symbol, book) ==
    IF symbol \in DOMAIN map THEN map
    ELSE [k \in DOMAIN map \cup {symbol} |-> IF k = symbol THEN book ELSE map[k]]

eraseSymbolAll(map, symbol) == <<>>

eraseSymbol(map, symbol) == [k \in DOMAIN map \ {symbol} |-> map[k]]

ThreadStep(t, next) ==
    /\ threads' = [threads EXCEPT ![t] = next]
    /\ UNCHANGED scope
    /\ UNCHANGED bookvars

\* A thread enters getOrCreateOrderBook(symbol).
GetOrCreateEnter(t) ==
    /\ threads[t].pc = "idle"
    /\ threads[t].calls < MaxCalls
    /\ \E symbol \in scope.ids :
          /\ ThreadStep(t, [threads[t] EXCEPT !.pc = "goc_shared", !.symbol = symbol])
          /\ registry' = [registry EXCEPT !.requested = @ \cup {symbol}]
    /\ UNCHANGED <<symbol_map, mutex>>

\* Where a call stands once it holds the lock it was waiting for.
SharedLocked ==
    [goc_shared |-> "goc_find", get_shared |-> "get_find", has_shared |-> "has_contains",
     symbols_shared |-> "symbols_copy", count_shared |-> "count_size"]

UniqueLocked ==
    [goc_unique |-> "goc_insert", remove_unique |-> "remove_erase",
     clear_unique |-> "clear_all"]

\* std::shared_lock lock(mutex_)
LockShared(t) ==
    /\ threads[t].pc \in DOMAIN SharedLocked
    /\ mutex.exclusive = 0
    /\ mutex' = [mutex EXCEPT !.shared = @ \cup {t}]
    /\ ThreadStep(t, [threads[t] EXCEPT !.pc = SharedLocked[@]])
    /\ UNCHANGED <<symbol_map, registry>>

ReleaseSharedKept(m, t) == m

\* The shared_lock goes out of scope.
ReleaseShared(m, t) == [m EXCEPT !.shared = @ \ {t}]

\* The lookup under the shared lock; the lock is released at the end of its block.
GetOrCreateFind(t) ==
    /\ threads[t].pc = "goc_find"
    /\ mutex' = ReleaseShared(mutex, t)
    /\ ThreadStep(t, IF hasSymbol(symbol_map, threads[t].symbol)
                     THEN [threads[t] EXCEPT !.pc = "done",
                                             !.book = symbol_map[threads[t].symbol]]
                     ELSE [threads[t] EXCEPT !.pc = "goc_unique", !.missed = TRUE])
    /\ UNCHANGED <<symbol_map, registry>>

\* std::unique_lock lock(mutex_)
LockUnique(t) ==
    /\ threads[t].pc \in DOMAIN UniqueLocked
    /\ mutex.exclusive = 0
    /\ mutex.shared = {}
    /\ mutex' = [mutex EXCEPT !.exclusive = t]
    /\ ThreadStep(t, [threads[t] EXCEPT !.pc = UniqueLocked[@]])
    /\ UNCHANGED <<symbol_map, registry>>

\* The double check, then make_unique and emplace; returns the book's pointer.
GetOrCreateInsert(t) ==
    /\ threads[t].pc = "goc_insert"
    /\ LET symbol == threads[t].symbol
           orderbook == [symbol |-> symbol, serial |-> registry.made[symbol] + 1]
       IN IF FoundOnRecheck(symbol_map, symbol)
          THEN /\ ThreadStep(t, [threads[t] EXCEPT !.pc = "done", !.book = symbol_map[symbol]])
               /\ UNCHANGED <<symbol_map, registry>>
          ELSE /\ ThreadStep(t, [threads[t] EXCEPT !.pc = "done", !.book = orderbook])
               /\ symbol_map' = emplace(symbol_map, symbol, orderbook)
               /\ registry' = [registry EXCEPT !.made[symbol] = @ + 1]
    /\ mutex' = [mutex EXCEPT !.exclusive = 0]

\* A thread enters removeOrderBook(symbol).
RemoveEnter(t) ==
    /\ scope.resets
    /\ threads[t].pc = "idle"
    /\ threads[t].calls < MaxCalls
    /\ \E symbol \in scope.ids :
          ThreadStep(t, [threads[t] EXCEPT !.pc = "remove_unique", !.symbol = symbol])
    /\ UNCHANGED <<symbol_map, mutex, registry>>

\* return symbol_map_.erase(symbol) > 0;
RemoveErase(t) ==
    /\ threads[t].pc = "remove_erase"
    /\ symbol_map' = eraseSymbol(symbol_map, threads[t].symbol)
    /\ ThreadStep(t, [threads[t] EXCEPT !.pc = "done",
                                        !.ret = hasSymbol(symbol_map, threads[t].symbol)])
    /\ mutex' = [mutex EXCEPT !.exclusive = 0]
    /\ UNCHANGED registry

\* The call returns to its caller.
ThreadReturn(t) ==
    /\ threads[t].pc \in {"done", "operated"}
    /\ ThreadStep(t, IdleThread(threads[t].calls + 1))
    /\ UNCHANGED <<symbol_map, mutex, registry>>

InitManager ==
    /\ scope \in {ScopeManager(FALSE), ScopeManager(TRUE)}
    /\ levels = [s \in Sides |-> <<>>]
    /\ pool = <<>>
    /\ order_map = <<>>
    /\ sides = [s \in Sides |-> <<>>]
    /\ cached_best = [s \in Sides |-> PriceLevelL2(0, 0, 0)]
    /\ tob_seq = 0
    /\ change_starting_index = ChangeStartingIndexInit
    /\ cached_tob = EmptyTob
    /\ last_seq_num = 0
    /\ events = <<>>
    /\ result = [returns |-> "void", ret |-> FALSE, is_last |-> TRUE, stale |-> FALSE,
                 call |-> NoCall, again |-> FALSE]
    /\ hist = [maxAccepted |-> 0, tobCount |-> 0, start |-> <<0, 0, 0, 0>>,
               changed |-> FALSE, touched0 |-> FALSE,
               differs |-> FALSE, published |-> <<0, 0, 0, 0>>]
    /\ writer = Idle
    /\ reader = Idle
    /\ symbol_map = <<>>
    /\ mutex = [exclusive |-> 0, shared |-> {}]
    /\ threads = [t \in Threads |-> IdleThread(0)]
    /\ registry = [made |-> [s \in Symbols |-> 0], requested |-> {}]

NextManager ==
    \/ \E t \in Threads : GetOrCreateEnter(t)
    \/ \E t \in Threads : LockShared(t)
    \/ \E t \in Threads : GetOrCreateFind(t)
    \/ \E t \in Threads : LockUnique(t)
    \/ \E t \in Threads : GetOrCreateInsert(t)
    \/ \E t \in Threads : RemoveEnter(t)
    \/ \E t \in Threads : RemoveErase(t)
    \/ \E t \in Threads : ThreadReturn(t)

SpecManager == InitManager /\ [][NextManager]_vars

\* ----------------------------------------------- the manager, every call
\* The same manager with all of its locked operations, and callers that go on
\* to use the pointer a lookup returned.
ScopeRegistry ==
    [book |-> "Registry", ids |-> Symbols, sides |-> {}, prices |-> {}, qtys |-> {},
     tss |-> {}, prios |-> {}, seqs |-> {}, lasts |-> {}, resets |-> TRUE]

\* A thread enters getOrderBook(symbol).
GetEnter(t) ==
    /\ scope.book = "Registry"
    /\ threads[t].pc = "idle"
    /\ threads[t].calls < MaxCalls
    /\ \E symbol \in scope.ids :
          ThreadStep(t, [threads[t] EXCEPT !.pc = "get_shared", !.symbol = symbol])
    /\ UNCHANGED <<symbol_map, mutex, registry>>

\* find under the shared lock; returns it->second.get() or nullptr.
GetFind(t) ==
    /\ threads[t].pc = "get_find"
    /\ mutex' = ReleaseShared(mutex, t)
    /\ ThreadStep(t, [threads[t] EXCEPT !.pc = "done",
                                        !.book = getOrderBook(symbol_map, threads[t].symbol)])
    /\ UNCHANGED <<symbol_map, registry>>

\* A thread enters hasSymbol(symbol).
HasEnter(t) ==
    /\ scope.book = "Registry"
    /\ threads[t].pc = "idle"
    /\ threads[t].calls < MaxCalls
    /\ \E symbol \in scope.ids :
          ThreadStep(t, [threads[t] EXCEPT !.pc = "has_shared", !.symbol = symbol])
    /\ UNCHANGED <<symbol_map, mutex, registry>>

\* return symbol_map_.contains(symbol);
HasContains(t) ==
    /\ threads[t].pc = "has_contains"
    /\ mutex' = ReleaseShared(mutex, t)
    /\ ThreadStep(t, [threads[t] EXCEPT !.pc = "done",
                                        !.ret = hasSymbol(symbol_map, threads[t].symbol)])
    /\ UNCHANGED <<symbol_map, registry>>

\* A thread enters getSymbols().
SymbolsEnter(t) ==
    /\ scope.book = "Registry"
    /\ threads[t].pc = "idle"
    /\ threads[t].calls < MaxCalls
    /\ ThreadStep(t, [threads[t] EXCEPT !.pc = "symbols_shared"])
    /\ UNCHANGED <<symbol_map, mutex, registry>>

\* The keys are copied into a vector under the shared lock.
SymbolsCopy(t) ==
    /\ threads[t].pc = "symbols_copy"
    /\ mutex' = ReleaseShared(mutex, t)
    /\ ThreadStep(t, [threads[t] EXCEPT !.pc = "done", !.symbols = DOMAIN symbol_map])
    /\ UNCHANGED <<symbol_map, registry>>

\* A thread enters symbolCount().
CountEnter(t) ==
    /\ scope.book = "Registry"
    /\ threads[t].pc = "idle"
    /\ threads[t].calls < MaxCalls
    /\ ThreadStep(t, [threads[t] EXCEPT !.pc = "count_shared"])
    /\ UNCHANGED <<symbol_map, mutex, registry>>

\* return symbol_map_.size();
CountSize(t) ==
    /\ threads[t].pc = "count_size"
    /\ mutex' = ReleaseShared(mutex, t)
    /\ ThreadStep(t, [threads[t] EXCEPT !.pc = "done", !.count = symbolCount(symbol_map)])
    /\ UNCHANGED <<symbol_map, registry>>

\* A thread enters clear().
ClearEnter(t) ==
    /\ scope.book = "Registry"
    /\ threads[t].pc = "idle"
    /\ threads[t].calls < MaxCalls
    /\ ThreadStep(t, [threads[t] EXCEPT !.pc = "clear_unique"])
    /\ UNCHANGED <<symbol_map, mutex, registry>>

\* symbol_map_.clear() under the exclusive lock: every book is destroyed.
ClearAll(t) ==
    /\ threads[t].pc = "clear_all"
    /\ symbol_map' = <<>>
    /\ ThreadStep(t, [threads[t] EXCEPT !.pc = "done"])
    /\ mutex' = [mutex EXCEPT !.exclusive = 0]
    /\ UNCHANGED registry

\* The book a pointer names is alive while the map still owns it.
Alive(map, book) == book # NullBook /\ getOrderBook(map, book.symbol) = book

\* The caller uses the pointer its lookup returned (book->updateLevel(...)),
\* holding no lock. On a book the map has destroyed this is a use after free,
\* whose outcome is arbitrary.
OperateOnBook(t) ==
    /\ scope.book = "Registry"
    /\ threads[t].pc = "done"
    /\ threads[t].book # NullBook
    /\ \E ok \in (IF Alive(symbol_map, threads[t].book) THEN {TRUE} ELSE BOOLEAN) :
          ThreadStep(t, [threads[t] EXCEPT !.pc = "operated", !.ret = ok])
    /\ UNCHANGED <<symbol_map, mutex, registry>>

InitRegistry ==
    /\ scope = ScopeRegistry
    /\ levels = [s \in Sides |-> <<>>]
    /\ pool = <<>>
    /\ order_map = <<>>
    /\ sides = [s \in Sides |-> <<>>]
    /\ cached_best = [s \in Sides |-> PriceLevelL2(0, 0, 0)]
    /\ tob_seq = 0
    /\ change_starting_index = ChangeStartingIndexInit
    /\ cached_tob = EmptyTob
    /\ last_seq_num = 0
    /\ events = <<>>
    /\ result = [returns |-> "void", ret |-> FALSE, is_last |-> TRUE, stale |-> FALSE,
                 call |-> NoCall, again |-> FALSE]
    /\ hist = [maxAccepted |-> 0, tobCount |-> 0, start |-> <<0, 0, 0, 0>>,
               changed |-> FALSE, touched0 |-> FALSE,
               differs |-> FALSE, published |-> <<0, 0, 0, 0>>]
    /\ writer = Idle
    /\ reader = Idle
    /\ symbol_map = <<>>
    /\ mutex = [exclusive |-> 0, shared |-> {}]
    /\ threads = [t \in Threads |-> IdleThread(0)]
    /\ registry = [made |-> [s \in Symbols |-> 0], requested |-> {}]

NextRegistry ==
    \/ \E t \in Threads : GetOrCreateEnter(t)
    \/ \E t \in Threads : GetEnter(t)
    \/ \E t \in Threads : HasEnter(t)
    \/ \E t \in Threads : SymbolsEnter(t)
    \/ \E t \in Threads : CountEnter(t)
    \/ \E t \in Threads : RemoveEnter(t)
    \/ \E t \in Threads : ClearEnter(t)
    \/ \E t \in Threads : LockShared(t)
    \/ \E t \in Threads : LockUnique(t)
    \/ \E t \in Threads : GetOrCreateFind(t)
    \/ \E t \in Threads : GetOrCreateInsert(t)
    \/ \E t \in Threads : GetFind(t)
    \/ \E t \in Threads : HasContains(t)
    \/ \E t \in Threads : SymbolsCopy(t)
    \/ \E t \in Threads : CountSize(t)
    \/ \E t \in Threads : RemoveErase(t)
    \/ \E t \in Threads : ClearAll(t)
    \/ \E t \in Threads : OperateOnBook(t)
    \/ \E t \in Threads : ThreadReturn(t)

SpecRegistry == InitRegistry /\ [][NextRegistry]_vars

\* The steps a call makes once it holds its lock, and the lock acquisitions.
\* A running thread keeps executing, and a fair lock grants every request that
\* can be granted again and again.
LockedStep(t) ==
    \/ GetOrCreateFind(t) \/ GetOrCreateInsert(t) \/ GetFind(t) \/ HasContains(t)
    \/ SymbolsCopy(t) \/ CountSize(t) \/ RemoveErase(t) \/ ClearAll(t)

SpecRegistryFair ==
    /\ SpecRegistry
    /\ \A t \in Threads : /\ WF_vars(LockedStep(t))
                          /\ SF_vars(LockShared(t))
                          /\ SF_vars(LockUnique(t))

\* ------------------------------------------------------------ properties
QueuedRefs == {<<s, i, j>> \in Sides \X Slots \X Slots :
                  i <= Len(levels[s]) /\ j <= Len(levels[s][i].orders)}

\* C1: in the L3 book every order of order_map is linked in exactly one level
\* queue, the queue of the level at the order's own side and price, and every
\* order linked in a level queue is in order_map under its own id, at the
\* level's side and price.
OrderMapMatchesLevelQueues ==
    /\ \A id \in DOMAIN order_map :
          LET ref == order_map[id]
              at == {q \in QueuedRefs : levels[q[1]][q[2]].orders[q[3]] = ref}
          IN /\ ref \in DOMAIN pool
             /\ pool[ref].order_id = id
             /\ Cardinality(at) = 1
             /\ \A q \in at : /\ q[1] = pool[ref].side
                              /\ levels[q[1]][q[2]].price = pool[ref].price
    /\ \A q \in QueuedRefs :
          LET ref == levels[q[1]][q[2]].orders[q[3]]
          IN /\ ref \in DOMAIN pool
             /\ pool[ref].order_id \in DOMAIN order_map
             /\ order_map[pool[ref].order_id] = ref
             /\ pool[ref].side = q[1]
             /\ pool[ref].price = levels[q[1]][q[2]].price

\* Two orders rest at two levels of one side, the last call having moved one
\* of them to another price.
TwoOrdersAfterPriceMove ==
    /\ Cardinality(DOMAIN order_map) = 2
    /\ \E s \in Sides : Len(levels[s]) = 2
    /\ \E i \in 1..Len(events) : /\ events[i].type = "OrderUpdate"
                                 /\ events[i].change_flags = PriceChanged + LastInBatch

\* C9: every L3 price level's total_quantity is the sum of the quantities of
\* the orders linked in its queue.
LevelTotalIsSumOfOrders ==
    \A s \in Sides : \A i \in 1..Len(levels[s]) :
        levels[s][i].total_quantity =
            SumSeq([j \in 1..Len(levels[s][i].orders) |->
                       pool[levels[s][i].orders[j]].quantity])

\* A level holds two orders and the last call changed the quantity of one.
TwoOrderLevelAfterQuantityChange ==
    /\ \E s \in Sides : \E i \in 1..Len(levels[s]) :
          Len(levels[s][i].orders) = 2 /\ levels[s][i].total_quantity = MaxQty + 1
    /\ \E i \in 1..Len(events) : /\ events[i].type = "OrderUpdate"
                                 /\ events[i].change_flags = QuantityChanged + LastInBatch

\* C10: the orders of every L3 price level, head to tail, have non-decreasing
\* priority values.
QueuePriorityNonDecreasing ==
    \A s \in Sides : \A i \in 1..Len(levels[s]) :
        \A j \in 1..(Len(levels[s][i].orders) - 1) :
            pool[levels[s][i].orders[j]].priority
                <= pool[levels[s][i].orders[j + 1]].priority

\* Three orders share a level and the one that arrived last is not at the tail.
LateOrderQueuedAhead ==
    \E s \in Sides : \E i \in 1..Len(levels[s]) :
        /\ Len(levels[s][i].orders) = 3
        /\ \E e \in 1..Len(events) :
              /\ events[e].type = "OrderUpdate"
              /\ events[e].change_flags = PriceChanged + QuantityChanged + LastInBatch
              /\ events[e].quantity > 0
              /\ pool[levels[s][i].orders[3]].order_id # events[e].order_id
              /\ pool[levels[s][i].orders[1]].priority
                    < pool[levels[s][i].orders[3]].priority

BookUnchanged ==
    /\ UNCHANGED <<levels, pool, order_map, sides, cached_best, tob_seq,
                   change_starting_index, cached_tob, last_seq_num>>

\* C4: in both books a mutating call made with 0 < seq_num < last_seq_num emits
\* no observer event and leaves levels, orders, cached top-of-book and
\* last_seq_num unchanged, and the L3 calls return false.
StaleCallRejected ==
    [][result'.stale =>
          /\ BookUnchanged
          /\ events' = <<>>
          /\ (result'.returns = "bool" => result'.ret = FALSE)]_vars

\* An L2 book that holds a level has just received a stale update.
StaleUpdateOnPopulatedL2 ==
    /\ scope.book = "L2"
    /\ result.stale
    /\ \E s \in Sides : sides[s] # <<>>

\* C5: last_seq_num is the largest nonzero seq_num among the calls that passed
\* the sequence gate (0 when there is none), it never decreases, and a later
\* call with 0 < seq_num < last_seq_num changes nothing.
LastSeqNumIsMaxAccepted ==
    /\ [](last_seq_num = hist.maxAccepted)
    /\ [][/\ last_seq_num' >= last_seq_num
          /\ (result'.stale => BookUnchanged /\ events' = <<>>)]_vars

\* An L3 book at the largest sequence number has just refused a call.
StaleCallAtMaxSeqL3 ==
    /\ scope.book = "L3"
    /\ last_seq_num = MaxSeq
    /\ result.stale
    /\ order_map # <<>>

\* C8: a call with is_last_in_batch = false emits no TopOfBookUpdate; a
\* TopOfBookUpdate comes from the call that closes a batch, after that call's
\* PriceLevelUpdate and OrderUpdate events, and carries the book's actual best
\* levels.
TopOfBookOnlyAtBatchClose ==
    \A i \in 1..Len(events) :
        events[i].type = "TopOfBookUpdate" =>
            /\ result.is_last
            /\ i = Len(events)
            /\ i > 1
            /\ \A j \in 1..(i - 1) : events[j].type \in {"PriceLevelUpdate", "OrderUpdate"}
            /\ TobValues(events[i]) = ActualTob

\* An L2 call at level index 1 closes a batch whose earlier call touched
\* index 0, and publishes the top of book.
BatchCloseAtIndexOnePublishes ==
    /\ scope.book = "L2"
    /\ ~scope.resets
    /\ Len(events) = 2
    /\ events[1].type = "PriceLevelUpdate"
    /\ events[1].level_index = 1
    /\ events[2].type = "TopOfBookUpdate"

\* C2: after any sequence of L2 mutations, get_top_of_book() returns the price
\* and quantity of the index-0 level of each container, computed at that
\* moment (0 when empty). Stated where no batch is left open.
GetTopOfBookIsFresh ==
    (scope.book = "L2" /\ result.is_last) =>
        TobValues(getTopOfBook(BookL2)) = TobOfSides(sides)

\* C3: with one writer publishing and readers running get_top_of_book(), every
\* returned value has all five fields from one single publication or from the
\* initial empty state.
GetTopOfBookSnapshotConsistent ==
    reader.pc = "done" => reader.tob \in writer.published

\* C6: for an L2 batch of update_level calls, a TopOfBookUpdate is emitted iff
\* the batch touched level index 0 and the top of book at the end of the batch
\* differs from the last published one.
L2BatchPublishesIffTopTouchedAndChanged ==
    (scope.book = "L2" /\ ~scope.resets /\ scope.seqs = {0} /\ result.is_last) =>
        (hist.tobCount >= 1 <=> (hist.touched0 /\ hist.differs))

\* C7: for an L3 batch, at most one TopOfBookUpdate is observed, and one is
\* observed iff the top-of-book value changed in the batch: the best levels
\* after the closing call differ from the best levels when the batch opened.
L3BatchPublishesIffTopChanged ==
    (scope.book = "L3" /\ ~scope.resets /\ scope.seqs = {0} /\ result.is_last) =>
        /\ hist.tobCount <= 1
        /\ (hist.tobCount = 1 <=> hist.changed)

\* C11: in the L2 book get_levels(side) lists prices strictly descending for
\* Bid and strictly ascending for Ask, with no duplicate price, so the best
\* level is the one at index 0.
L2LevelsStrictlySorted ==
    \A s \in Sides :
        LET lv == getLevels(sides[s], 0)
        IN /\ \A i \in 1..(Len(lv) - 1) : Compare(s, lv[i].price, lv[i + 1].price)
           /\ \A i, j \in 1..Len(lv) : i # j => lv[i].price # lv[j].price
           /\ \A i \in 2..Len(lv) : /\ best(sides[s]) = lv[1]
                                    /\ Compare(s, lv[1].price, lv[i].price)

\* A side holds three levels, the last call having inserted the middle one.
L2LevelInsertedBetweenTwo ==
    /\ scope.book = "L2"
    /\ \E s \in Sides : Len(sides[s]) = 3
    /\ Len(events) = 1
    /\ events[1].level_index = 1
    /\ HasFlag(events[1].change_flags, PriceChanged)
    /\ events[1].quantity > 0

\* C12: every level present in an L2 side container has quantity > 0, whatever
\* signed quantity update_level was called with.
L2LevelQuantitiesPositive ==
    \A s \in Sides : \A i \in 1..Len(sides[s]) : sides[s][i].quantity > 0

\* The last step was a modify_order, delete_order or execute_order call whose
\* order id was not in the book and whose seq_num passed the sequence gate.
UnknownOrderCall ==
    /\ result'.call.op \in {"modifyOrder", "deleteOrder", "executeOrder"}
    /\ ~result'.stale
    /\ result'.call.order_id \notin DOMAIN order_map

\* C13: an L3 modify_order, delete_order or execute_order call with an order
\* id that is not in the book returns false, emits no event and leaves levels,
\* order map, cached top-of-book and last_seq_num unchanged, for every seq_num
\* that passes the sequence gate.
UnknownOrderChangesNothing ==
    [][UnknownOrderCall =>
          /\ result'.ret = FALSE
          /\ events' = <<>>
          /\ UNCHANGED <<levels, pool, order_map, cached_tob, last_seq_num>>]_vars

\* The last step was a call with an out-of-range quantity.
OutOfRangeQuantityCall ==
    LET c == result'.call
        known == c.order_id \in DOMAIN order_map
    IN \/ /\ c.op = "addOrModifyOrder"
          /\ (c.quantity < 0 \/ (c.quantity <= 0 /\ ~known))
       \/ /\ c.op = "modifyOrder"
          /\ c.quantity < 0
       \/ /\ c.op = "executeOrder"
          /\ \/ c.quantity <= 0
             \/ known /\ c.quantity > pool[order_map[c.order_id]].quantity

\* C14: an L3 call with an out-of-range quantity (add_or_modify_order with
\* quantity < 0, or with quantity <= 0 for an id not in the book; modify_order
\* with new_quantity < 0; execute_order with executed_qty <= 0 or more than the
\* order holds) returns false, emits no event and leaves the book state
\* unchanged.
OutOfRangeQuantityChangesNothing ==
    [][OutOfRangeQuantityCall =>
          /\ result'.ret = FALSE
          /\ events' = <<>>
          /\ UNCHANGED <<levels, pool, order_map, cached_tob, last_seq_num>>]_vars

\* C15: add_or_modify_order with an id that rests on the opposite side returns
\* false, emits no event and leaves the resting order (side, price, quantity,
\* queue position), its level and the order map unchanged.
OppositeSideReuseRejected ==
    [][(/\ result'.call.op = "addOrModifyOrder"
        /\ result'.call.order_id \in DOMAIN order_map
        /\ pool[order_map[result'.call.order_id]].side # result'.call.side) =>
          /\ result'.ret = FALSE
          /\ events' = <<>>
          /\ UNCHANGED <<levels, pool, order_map>>]_vars

\* An add_or_modify_order that passed the gate with a positive quantity and
\* another price has just been refused: its id rests on the other side.
OppositeSideReuseRefused ==
    /\ result.call.op = "addOrModifyOrder"
    /\ ~result.stale
    /\ ~result.ret
    /\ result.call.quantity > 0
    /\ result.call.order_id \in DOMAIN order_map
    /\ pool[order_map[result.call.order_id]].side # result.call.side
    /\ pool[order_map[result.call.order_id]].price # result.call.price

\* C16: add_or_modify_order called a second time with the arguments of the
\* first, successful call returns true, leaves the book state as it was after
\* the first call and emits no event.
AddOrModifyTwiceIsIdempotent ==
    [][(result'.call.op = "addOrModifyOrder" /\ result'.again) =>
          /\ result'.ret = TRUE
          /\ events' = <<>>
          /\ UNCHANGED <<levels, pool, order_map, cached_tob, last_seq_num>>]_vars

\* C16, amended: when the quantity is positive, the second call returns true,
\* leaves the book state as it was after the first call and emits no event.
\* (With quantity 0 the first call deletes the order and the second call,
\* finding no order, returns false.)
AddOrModifyTwiceIsIdempotentForPositiveQuantity ==
    [][(/\ result'.call.op = "addOrModifyOrder"
        /\ result'.again
        /\ result'.call.quantity > 0) =>
          /\ result'.ret = TRUE
          /\ events' = <<>>
          /\ UNCHANGED <<levels, pool, order_map, cached_tob, last_seq_num>>]_vars

\* A successful add_or_modify_order carrying a sequence number has just been
\* repeated, argument for argument.
AddOrModifyRepeatedAtSameSeq ==
    /\ result.call.op = "addOrModifyOrder"
    /\ result.again
    /\ result.call.quantity > 0
    /\ result.call.seq_num > 0
    /\ result.call.order_id \in DOMAIN order_map

\* The answer a publication gives for a side: nullptr when it has no level
\* there, else the level it wrote to the side's cached best level.
AnswerOf(p, side) ==
    IF p[side].price = 0 THEN NullLevel
    ELSE [null |-> FALSE, price |-> p[side].price, quantity |-> p[side].quantity,
          timestamp |-> p[side].timestamp]

\* C17: with one writer publishing and concurrent readers, what a reader gets
\* from get_best(side) is the answer of one single publication: nullptr when
\* that publication has no level on the side, else that publication's price,
\* quantity and timestamp.
GetBestSnapshotConsistent ==
    reader.pc = "best_done" =>
        \E p \in writer.publishedBest : reader.level = AnswerOf(p, reader.side)

\* C18: when threads call get_or_create concurrently (and nothing removes),
\* exactly one book is created per requested symbol, every caller receives the
\* handle of that book, and once the calls are over count() is the number of
\* distinct symbols requested.
ConcurrentGetOrCreateMakesOneBook ==
    (scope.book = "Manager" /\ ~scope.resets) =>
        /\ \A s \in Symbols : registry.made[s] <= 1
        /\ \A t \in Threads :
              threads[t].pc = "done" =>
                  /\ registry.made[threads[t].symbol] = 1
                  /\ threads[t].book = [symbol |-> threads[t].symbol, serial |-> 1]
                  /\ threads[t].book = getOrderBook(symbol_map, threads[t].symbol)
        /\ (\A t \in Threads : threads[t].pc \in {"idle", "done"}) =>
              symbolCount(symbol_map) = Cardinality(registry.requested)

\* Two threads asked for the same symbol, both missed it under the shared lock,
\* and both have their book.
BothMissedThenGotTheBook ==
    /\ ~scope.resets
    /\ \A t \in Threads : /\ threads[t].pc = "done"
                          /\ threads[t].missed
                          /\ threads[t].symbol = 1

\* C19: remove(symbol) returns true exactly when the symbol was registered;
\* afterwards has(symbol) is false, get(symbol) returns none and count() is one
\* less, while every other registered symbol keeps its book; remove of an
\* unregistered symbol returns false and changes nothing.
RemoveDropsOnlyItsSymbol ==
    [][\A t \in Threads :
          (threads[t].pc = "remove_erase" /\ threads'[t].pc = "done") =>
              LET symbol == threads[t].symbol
                  registered == hasSymbol(symbol_map, symbol)
              IN /\ threads'[t].ret = registered
                 /\ ~hasSymbol(symbol_map', symbol)
                 /\ getOrderBook(symbol_map', symbol) = NullBook
                 /\ symbolCount(symbol_map') =
                        symbolCount(symbol_map) - (IF registered THEN 1 ELSE 0)
                 /\ \A other \in Symbols \ {symbol} :
                        /\ hasSymbol(symbol_map', other) = hasSymbol(symbol_map, other)
                        /\ getOrderBook(symbol_map', other) = getOrderBook(symbol_map, other)
                 /\ (~registered => symbol_map' = symbol_map)]_vars

\* A remove has just returned true and the other symbol is still registered.
RemovedOneOfTwoSymbols ==
    /\ scope.book = "Manager"
    /\ \E t \in Threads :
          /\ threads[t].pc = "done"
          /\ threads[t].ret
          /\ ~hasSymbol(symbol_map, threads[t].symbol)
          /\ symbolCount(symbol_map) = 1

\* A fresh, empty book of each kind, and the replay of captured events into
\* it: every OrderUpdate through add_or_modify_order, every PriceLevelUpdate
\* through update_level, with the fields and the flags the event carries.
FreshL3 ==
    [levels |-> [s \in Sides |-> <<>>], pool |-> <<>>, order_map |-> <<>>,
     cached_tob |-> EmptyTob, last_seq_num |-> 0, ev |-> <<>>, ret |-> FALSE]

FreshL2 ==
    [sides |-> [s \in Sides |-> <<>>],
     cached_best |-> [s \in Sides |-> PriceLevelL2(0, 0, 0)], tob_seq |-> 0,
     change_starting_index |-> ChangeStartingIndexInit, cached_tob |-> EmptyTob,
     last_seq_num |-> 0, ev |-> <<>>, ret |-> FALSE]

RECURSIVE ReplayL3(_, _)
ReplayL3(b, evs) ==
    IF evs = <<>> THEN b
    ELSE LET e == Head(evs)
         IN IF e.type # "OrderUpdate" THEN ReplayL3(b, Tail(evs))
            ELSE CHOOSE r \in {ReplayL3(b1, Tail(evs)) :
                               b1 \in {addOrModifyOrder(b, e.order_id, e.side, e.price,
                                                        e.quantity, e.timestamp, e.priority,
                                                        e.seq_num,
                                                        HasFlag(e.change_flags, LastInBatch))}} :
                     TRUE

RECURSIVE ReplayL2(_, _)
ReplayL2(b, evs) ==
    IF evs = <<>> THEN b
    ELSE LET e == Head(evs)
         IN IF e.type # "PriceLevelUpdate" THEN ReplayL2(b, Tail(evs))
            ELSE CHOOSE r \in {ReplayL2(b1, Tail(evs)) :
                               b1 \in {updateLevel(b, e.side, e.price, e.quantity,
                                                   e.timestamp, e.seq_num,
                                                   HasFlag(e.change_flags, LastInBatch))}} :
                     TRUE

\* Per side, the (price, quantity) of every level, best first.
LevelQuantitiesL3(lvls) ==
    [s \in Sides |-> [i \in 1..Len(lvls[s]) |->
                         <<lvls[s][i].price, lvls[s][i].total_quantity>>]]

LevelQuantitiesL2(sd) ==
    [s \in Sides |-> [i \in 1..Len(sd[s]) |-> <<sd[s][i].price, sd[s][i].quantity>>]]

\* C20: replaying the events of emit_snapshot(ts) into a fresh empty book
\* (OrderUpdate via add_or_modify_order for L3, PriceLevelUpdate via
\* update_level for L2, with the fields and flags the event carries) yields a
\* book with the same level_count per side, the same order_count, the same
\* quantity at every price on every side, and the same get_top_of_book()
\* value as the original.
SnapshotReplayReproducesBook ==
    result.returns = "snapshot" =>
        IF scope.book = "L3"
        THEN LET r == ReplayL3(FreshL3, events)
             IN /\ LevelQuantitiesL3(r.levels) = LevelQuantitiesL3(levels)
                /\ Cardinality(DOMAIN r.order_map) = Cardinality(DOMAIN order_map)
                /\ getTopOfBookL3(r.levels, r.pool) = getTopOfBookL3(levels, pool)
        ELSE LET r == ReplayL2(FreshL2, events)
             IN /\ LevelQuantitiesL2(r.sides) = LevelQuantitiesL2(sides)
                /\ getTopOfBook(r) = getTopOfBook(BookL2)

\* C21: the seqlock write bracket of the L2 book. tob_seq is odd exactly while
\* the writer is inside a publication, the cached top of book and the cached
\* best levels are modified only while tob_seq is odd, tob_seq grows by
\* exactly 2 per publication, and the onTopOfBookUpdate observers are invoked
\* only after tob_seq has returned to even.
SeqlockWriteBracket ==
    [][/\ (tob_seq' % 2 = 1) <=> (writer'.pc = "publishing" /\ writer'.odd)
       /\ (cached_tob' # cached_tob \/ cached_best' # cached_best) => tob_seq % 2 = 1
       /\ tob_seq' # tob_seq => tob_seq' = tob_seq + 1
       /\ writer'.pc = "idle" => tob_seq' = 2 * (Cardinality(writer'.published) - 1)
       /\ TobEvents(events') # TobEvents(events) => tob_seq' % 2 = 0]_vars

ChangeStartingIndexResetAtBatchClose ==
    (scope.book = "L2" /\ result.is_last) => change_starting_index = INVALID_INDEX

DeleteOfMissingLevelDoesNothing ==
    [][(/\ result'.call.op = "updateLevel"
        /\ result'.call.quantity = 0
        /\ \A i \in 1..Len(sides[result'.call.side]) :
              sides[result'.call.side][i].price # result'.call.price)
       => /\ events' = <<>>
          /\ sides' = sides
          /\ cached_tob' = cached_tob
          /\ cached_best' = cached_best]_vars

\* An update_level with quantity 0 that passed the sequence gate has just
\* named a price absent from a side that holds another level.
MissingLevelDeletedBesideAnother ==
    /\ scope.book = "L2"
    /\ result.call.op = "updateLevel"
    /\ result.call.quantity = 0
    /\ ~result.stale
    /\ sides[result.call.side] # <<>>
    /\ \A i \in 1..Len(sides[result.call.side]) :
          sides[result.call.side][i].price # result.call.price
    /\ events = <<>>

\* The 0-based position of a price in a side's best-first order: the number of
\* levels of the side that sort before it.
PositionOf(lv, side, price) ==
    Cardinality({j \in 1..Len(lv) : Compare(side, lv[j].price, price)})

HasLevel(lv, price) == \E j \in 1..Len(lv) : lv[j].price = price

\* C26: in both books every PriceLevelUpdate and OrderUpdate emitted by a
\* mutation carries the 0-based position of the affected level in its side's
\* best-first order at the time of emission; for a level the mutation removed,
\* the position the level held immediately before removal. The old-level
\* PriceLevelUpdate of a price-changing modify_order goes out before the
\* order enters its new level: its side is then as before the call, less the
\* old level when that emptied.
EventsCarryLevelPosition ==
    [][\A i \in 1..Len(events') :
          LET e == events'[i]
              before == IF scope.book = "L3" THEN levels[e.side] ELSE sides[e.side]
              after == IF scope.book = "L3" THEN levels'[e.side] ELSE sides'[e.side]
              oldLevel == /\ e.type = "PriceLevelUpdate"
                          /\ i = 1
                          /\ Len(events') >= 2
                          /\ events'[2].type = "OrderUpdate"
              expected == IF oldLevel \/ ~HasLevel(after, e.price)
                          THEN PositionOf(before, e.side, e.price)
                          ELSE PositionOf(after, e.side, e.price)
          IN /\ e.type = "PriceLevelUpdate" => e.level_index = expected
             /\ e.type = "OrderUpdate" => e.price_level_index = expected]_vars

\* A modify_order has just moved one of two orders of the best level to a new,
\* better price: its old level stays, reported at index 0, and the new level
\* is reported at index 0 as well.
OrderMovedAheadOfItsOldLevel ==
    /\ Len(events) >= 3
    /\ events[1].type = "PriceLevelUpdate"
    /\ events[2].type = "OrderUpdate"
    /\ events[1].quantity > 0
    /\ events[1].level_index = 0
    /\ events[3].level_index = 0
    /\ events[3].price # events[1].price

\* The ids of the orders that a step leaves in the book at another price.
MovedOrders ==
    {id \in DOMAIN order_map \cap DOMAIN order_map' :
        pool[order_map[id]].price # pool'[order_map'[id]].price}

\* The total quantity the orders of a side rest at a price, from the orders.
RestingAt(p, side, price) ==
    LET refs == {r \in DOMAIN p : p[r].side = side /\ p[r].price = price}
        RECURSIVE Sum(_)
        Sum(S) == IF S = {} THEN 0
                  ELSE LET r == CHOOSE x \in S : TRUE IN p[r].quantity + Sum(S \ {r})
    IN Sum(refs)

\* C27: a modify_order that changes an order's price emits, in this order: a
\* PriceLevelUpdate for the old level with the old level's remaining total,
\* QuantityChanged, PriceChanged iff the old level was destroyed, never
\* LastInBatch; one OrderUpdate with PriceChanged, QuantityChanged iff the
\* quantity changed too, LastInBatch iff set; one PriceLevelUpdate for the new
\* level, PriceChanged iff the level was newly created; then at most one
\* TopOfBookUpdate.
PriceChangeEventOrder ==
    [][\A id \in MovedOrders :
          LET old == pool[order_map[id]]
              new == pool'[order_map'[id]]
              last == IF result'.is_last THEN LastInBatch ELSE 0
              remaining == RestingAt(pool, old.side, old.price) - old.quantity
              destroyed == \A r \in DOMAIN pool :
                              (pool[r].side = old.side /\ pool[r].price = old.price)
                                  => r = order_map[id]
              created == \A r \in DOMAIN pool :
                            ~(pool[r].side = old.side /\ pool[r].price = new.price)
          IN /\ Len(events') \in {3, 4}
             /\ events'[1].type = "PriceLevelUpdate"
             /\ events'[1].side = old.side
             /\ events'[1].price = old.price
             /\ events'[1].quantity = remaining
             /\ events'[1].change_flags
                  = QuantityChanged + (IF destroyed THEN PriceChanged ELSE 0)
             /\ events'[2].type = "OrderUpdate"
             /\ events'[2].order_id = id
             /\ events'[2].price = new.price
             /\ events'[2].quantity = new.quantity
             /\ events'[2].change_flags
                  = PriceChanged
                    + (IF new.quantity # old.quantity THEN QuantityChanged ELSE 0) + last
             /\ events'[3].type = "PriceLevelUpdate"
             /\ events'[3].side = old.side
             /\ events'[3].price = new.price
             /\ events'[3].quantity = RestingAt(pool', old.side, new.price)
             /\ HasFlag(events'[3].change_flags, PriceChanged) <=> created
             /\ HasFlag(events'[3].change_flags, LastInBatch) <=> result'.is_last
             /\ Len(events') = 4 => events'[4].type = "TopOfBookUpdate"]_vars

\* A modify_order has just moved the only order of a level onto a level that
\* another order already held: the old level went, the new one was not created.
OrderMovedOntoExistingLevel ==
    /\ Len(events) >= 3
    /\ events[1].type = "PriceLevelUpdate"
    /\ events[1].quantity = 0
    /\ events[1].change_flags = PriceChanged + QuantityChanged
    /\ events[2].type = "OrderUpdate"
    /\ events[3].type = "PriceLevelUpdate"
    /\ ~HasFlag(events[3].change_flags, PriceChanged)

\* C28: add_or_modify_order for an id not in the book with quantity > 0
\* inserts the order and emits exactly one OrderUpdate with
\* PriceChanged | QuantityChanged followed by exactly one PriceLevelUpdate for
\* the order's level carrying the level's new total quantity, flagged
\* QuantityChanged plus PriceChanged iff the level was created by this call;
\* both events carry LastInBatch iff is_last_in_batch is true.
NewOrderEmitsOrderThenLevel ==
    [][/\ (/\ result'.call.op = "addOrModifyOrder"
           /\ ~GateRejects(last_seq_num, result'.call.seq_num)
           /\ result'.call.order_id \notin DOMAIN order_map
           /\ result'.call.quantity > 0)
          => /\ result'.ret
             /\ result'.call.order_id \in DOMAIN order_map'
             /\ LET o == pool'[order_map'[result'.call.order_id]]
                IN /\ o.side = result'.call.side
                   /\ o.price = result'.call.price
                   /\ o.quantity = result'.call.quantity
       /\ \A id \in DOMAIN order_map' \ DOMAIN order_map :
             LET o == pool'[order_map'[id]]
                 last == IF result'.is_last THEN LastInBatch ELSE 0
                 created == \A r \in DOMAIN pool :
                               ~(pool[r].side = o.side /\ pool[r].price = o.price)
                 emitted == SelectSeq(events', LAMBDA e : e.type # "TopOfBookUpdate")
             IN /\ Len(emitted) = 2
                /\ SubSeq(events', 1, 2) = emitted
                /\ emitted[1].type = "OrderUpdate"
                /\ emitted[1].order_id = id
                /\ emitted[1].price = o.price
                /\ emitted[1].quantity = o.quantity
                /\ emitted[1].change_flags = PriceChanged + QuantityChanged + last
                /\ emitted[2].type = "PriceLevelUpdate"
                /\ emitted[2].side = o.side
                /\ emitted[2].price = o.price
                /\ emitted[2].quantity = RestingAt(pool', o.side, o.price)
                /\ emitted[2].change_flags
                     = QuantityChanged + (IF created THEN PriceChanged ELSE 0) + last]_vars

\* Inside a batch a new order has just joined a level that held another one.
NewOrderJoinedExistingLevel ==
    /\ Len(events) = 2
    /\ events[1].type = "OrderUpdate"
    /\ events[1].change_flags = PriceChanged + QuantityChanged
    /\ events[2].type = "PriceLevelUpdate"
    /\ events[2].change_flags = QuantityChanged
    /\ events[2].quantity > events[1].quantity

\* C29: delete_order of an existing order removes it from its level queue and
\* from the order map, removes the level iff it became empty, and emits one
\* OrderUpdate with quantity 0 and PriceChanged | QuantityChanged followed by
\* one PriceLevelUpdate for the affected level carrying the level's remaining
\* total quantity (0 when the level was removed); afterwards find_order(id)
\* returns none and the id may be added again.
DeleteOrderRemovesAndReports ==
    [][/\ (/\ result'.call.op = "deleteOrder"
           /\ ~GateRejects(last_seq_num, result'.call.seq_num)
           /\ result'.call.order_id \in DOMAIN order_map)
          => /\ result'.ret
             /\ result'.call.order_id \notin DOMAIN order_map'
       /\ result'.returns = "bool"
          => \A id \in DOMAIN order_map \ DOMAIN order_map' :
                LET ref == order_map[id]
                    o == pool[ref]
                    others == {r \in DOMAIN pool \ {ref} :
                                  pool[r].side = o.side /\ pool[r].price = o.price}
                    emitted == SelectSeq(events', LAMBDA e : e.type # "TopOfBookUpdate")
                    again == addOrModifyOrder(BookL3', id, o.side, o.price, 1, 1, 0, 0, TRUE)
                IN /\ ref \notin DOMAIN pool'
                   /\ \A s \in Sides : \A j \in 1..Len(levels'[s]) :
                         ref \notin SeqRange(levels'[s][j].orders)
                   /\ HasLevel(levels'[o.side], o.price) <=> others # {}
                   /\ Len(emitted) = 2
                   /\ SubSeq(events', 1, 2) = emitted
                   /\ emitted[1].type = "OrderUpdate"
                   /\ emitted[1].order_id = id
                   /\ emitted[1].quantity = 0
                   /\ HasFlag(emitted[1].change_flags, PriceChanged)
                   /\ HasFlag(emitted[1].change_flags, QuantityChanged)
                   /\ emitted[2].type = "PriceLevelUpdate"
                   /\ emitted[2].side = o.side
                   /\ emitted[2].price = o.price
                   /\ emitted[2].quantity = RestingAt(pool', o.side, o.price)
                   /\ emitted[2].quantity = 0 <=> others = {}
                   /\ again.ret
                   /\ id \in DOMAIN again.order_map]_vars

\* A delete_order has just taken one order out of a level that keeps another.
OrderDeletedFromSharedLevel ==
    /\ Len(events) >= 2
    /\ events[1].type = "OrderUpdate"
    /\ events[1].quantity = 0
    /\ events[2].type = "PriceLevelUpdate"
    /\ events[2].quantity > 0
    /\ events[2].price = events[1].price

\* C30: execute_order(id, x) with 0 < x <= order.quantity has exactly the
\* effect and events of delete_order(id) when x equals the order's quantity,
\* and of modify_order(id, order.price, order.quantity - x) otherwise; in the
\* partial case the order keeps its price, priority and position in the level
\* queue and the level's total quantity decreases by x; seq_num and
\* is_last_in_batch pass through unchanged.
ExecuteIsDeleteOrModify ==
    scope.book = "L3" =>
        \A id \in DOMAIN order_map, seq_num \in scope.seqs, is_last_in_batch \in BOOLEAN :
            LET ref == order_map[id]
                o == pool[ref]
                at == FindLevel(levels[o.side], o.price)
            IN \A x \in 1..o.quantity :
                  LET b == executeOrder(BookL3, id, x, seq_num, is_last_in_batch)
                  IN IF x = o.quantity
                     THEN b = deleteOrder(BookL3, id, seq_num, is_last_in_batch)
                     ELSE /\ b = modifyOrder(BookL3, id, o.price, o.quantity - x, seq_num,
                                             is_last_in_batch)
                          /\ ~GateRejects(last_seq_num, seq_num)
                             => /\ b.ret
                                /\ b.order_map = order_map
                                /\ b.pool = [pool EXCEPT ![ref].quantity = o.quantity - x]
                                /\ b.levels[o.side][at].orders = levels[o.side][at].orders
                                /\ b.levels[o.side][at].total_quantity
                                     = levels[o.side][at].total_quantity - x
                                /\ \A i \in 1..Len(b.ev) :
                                      b.ev[i].type # "TopOfBookUpdate"
                                          => /\ b.ev[i].seq_num = seq_num
                                             /\ HasFlag(b.ev[i].change_flags, LastInBatch)
                                                  <=> is_last_in_batch

\* An execute_order has just taken part of an order's quantity: the order is
\* still in the book and its OrderUpdate carries QuantityChanged alone.
OrderPartiallyExecuted ==
    /\ result.call.op = "executeOrder"
    /\ result.ret
    /\ result.call.order_id \in DOMAIN order_map
    /\ Len(events) >= 2
    /\ events[1].type = "OrderUpdate"
    /\ events[1].quantity > 0
    /\ ~HasFlag(events[1].change_flags, PriceChanged)

\* C31: add_order is a strict add: called with an order id that is already in
\* the book it returns false, emits no event, and leaves the existing order's
\* price, quantity and queue position unchanged, whatever side, price and
\* quantity the call supplies.
AddOrderRefusesExistingId ==
    [][(/\ result'.call.op = "addOrder"
        /\ result'.call.order_id \in DOMAIN order_map)
       => /\ ~result'.ret
          /\ events' = <<>>
          /\ order_map' = order_map
          /\ pool' = pool
          /\ levels' = levels]_vars

\* An add_order that passed the sequence gate has just named a resting order's
\* id with another price and another quantity.
AddOrderNamedRestingOrder ==
    /\ result.call.op = "addOrder"
    /\ ~result.stale
    /\ result.call.order_id \in DOMAIN order_map
    /\ result.call.quantity > 0
    /\ LET o == pool[order_map[result.call.order_id]]
       IN /\ o.side = result.call.side
          /\ o.price # result.call.price
          /\ o.quantity # result.call.quantity
    /\ ~result.ret

\* The queue of the level a side has at a price, empty when there is none.
QueueAt(lv, price) ==
    IF HasLevel(lv, price)
    THEN lv[CHOOSE j \in 1..Len(lv) : lv[j].price = price].orders
    ELSE <<>>

\* C32: an order inserted into a price level, by an add or by a price-moving
\* modify, is spliced immediately before the first resident whose priority is
\* strictly greater than its own and after every resident with a priority
\* less than or equal to its own; the residents keep their order.
InsertedAfterEqualPriorities ==
    [][\A id \in MovedOrders \cup (DOMAIN order_map' \ DOMAIN order_map) :
          LET ref == order_map'[id]
              o == pool'[ref]
              q == QueueAt(levels'[o.side], o.price)
              k == CHOOSE j \in 1..Len(q) : q[j] = ref
          IN /\ \E j \in 1..Len(q) : q[j] = ref
             /\ \A j \in 1..Len(q) :
                   /\ j < k => pool'[q[j]].priority <= o.priority
                   /\ j > k => pool'[q[j]].priority > o.priority
             /\ RemoveAt(q, k) = QueueAt(levels[o.side], o.price)]_vars

\* The order that has just been added sits second of three: behind a resident
\* of its own priority and ahead of one with a greater priority.
AddedBetweenEqualAndGreater ==
    /\ Len(events) >= 2
    /\ events[1].type = "OrderUpdate"
    /\ events[1].quantity > 0
    /\ HasFlag(events[1].change_flags, PriceChanged)
    /\ \E s \in Sides : \E i \in 1..Len(levels[s]) :
          LET q == levels[s][i].orders
          IN /\ Len(q) = 3
             /\ pool[q[2]].order_id = events[1].order_id
             /\ pool[q[1]].priority = pool[q[2]].priority
             /\ pool[q[2]].priority < pool[q[3]].priority

\* C33: from the moment an order id is added until it is deleted or fully
\* executed, the order's side and priority never change, under any sequence
\* of modify_order, add_or_modify_order and execute_order calls, modifies that
\* move it to another price included.
SideAndPriorityImmutable ==
    [][\A id \in DOMAIN order_map \cap DOMAIN order_map' :
          /\ pool'[order_map'[id]].side = pool[order_map[id]].side
          /\ pool'[order_map'[id]].priority = pool[order_map[id]].priority]_vars

\* An add_or_modify_order naming a resting order with another price and
\* another priority has just moved the order, which keeps its own priority.
OrderMovedByCallWithOtherPriority ==
    /\ result.call.op = "addOrModifyOrder"
    /\ result.ret
    /\ result.call.order_id \in DOMAIN order_map
    /\ pool[order_map[result.call.order_id]].priority # result.call.priority
    /\ Len(events) >= 3
    /\ events[1].type = "PriceLevelUpdate"
    /\ events[2].type = "OrderUpdate"
    /\ events[2].price = result.call.price

\* C34: after any sequence of operations every price level present in a
\* side's map holds at least one order and every resting order has
\* quantity > 0; a level is there exactly while an order rests at its price:
\* created when its first order arrives, removed in the call in which its last
\* order leaves.
LevelsLiveWithTheirOrders ==
    scope.book = "L3" =>
        /\ \A s \in Sides : \A i \in 1..Len(levels[s]) :
              /\ levels[s][i].orders # <<>>
              /\ \A j \in 1..Len(levels[s][i].orders) :
                    pool[levels[s][i].orders[j]].quantity > 0
        /\ \A s \in Sides : \A price \in scope.prices :
              HasLevel(levels[s], price)
                  <=> \E r \in DOMAIN pool : pool[r].side = s /\ pool[r].price = price

\* The last order of a level has just been deleted and its level removed,
\* while the side keeps another level.
LastOrderLeftOneOfTwoLevels ==
    /\ Len(events) >= 2
    /\ events[1].type = "OrderUpdate"
    /\ events[1].quantity = 0
    /\ events[2].type = "PriceLevelUpdate"
    /\ events[2].quantity = 0
    /\ levels[events[1].side] # <<>>
    /\ ~HasLevel(levels[events[1].side], events[1].price)

\* The events of a call with their sequence numbers blanked.
Untracked(ev) ==
    [i \in 1..Len(ev) |-> IF "seq_num" \in DOMAIN ev[i] THEN [ev[i] EXCEPT !.seq_num = 0]
                          ELSE ev[i]]

\* a is what a call made with seq_num did to the book, u what the same call,
\* untracked, does to the same book with no sequence number recorded: they
\* agree on everything but the sequence numbers, and a recorded seq_num
\* unless it was 0.
AppliedAsUntracked(a, u, seq_num) ==
    /\ [a EXCEPT !.last_seq_num = 0, !.ev = Untracked(a.ev)]
         = [u EXCEPT !.last_seq_num = 0, !.ev = Untracked(u.ev)]
    /\ a.last_seq_num = IF seq_num = 0 THEN last_seq_num ELSE seq_num

\* C35: in both books the sequence gate rejects only strictly smaller numbers:
\* a call with seq_num = 0 is never rejected by the gate and leaves
\* last_seq_num unchanged, and a call with seq_num equal to last_seq_num or
\* greater by any gap is accepted and applied.
GateAcceptsZeroEqualAndGaps ==
    \A seq_num \in {s \in scope.seqs : s = 0 \/ s >= last_seq_num},
       is_last_in_batch \in scope.lasts, price \in scope.prices, quantity \in scope.qtys,
       timestamp \in scope.tss :
        IF scope.book = "L2"
        THEN \A side \in scope.sides :
                AppliedAsUntracked(
                    updateLevel(BookL2, side, price, quantity, timestamp, seq_num,
                                is_last_in_batch),
                    updateLevel([BookL2 EXCEPT !.last_seq_num = 0], side, price, quantity,
                                timestamp, 0, is_last_in_batch), seq_num)
        ELSE LET fresh == [BookL3 EXCEPT !.last_seq_num = 0]
             IN \A order_id \in scope.ids :
                   /\ \A side \in scope.sides, priority \in scope.prios :
                         /\ AppliedAsUntracked(
                                addOrModifyOrder(BookL3, order_id, side, price, quantity,
                                                 timestamp, priority, seq_num,
                                                 is_last_in_batch),
                                addOrModifyOrder(fresh, order_id, side, price, quantity,
                                                 timestamp, priority, 0, is_last_in_batch),
                                seq_num)
                         /\ AppliedAsUntracked(
                                addOrder(BookL3, order_id, side, price, quantity, timestamp,
                                         priority, seq_num, is_last_in_batch),
                                addOrder(fresh, order_id, side, price, quantity, timestamp,
                                         priority, 0, is_last_in_batch), seq_num)
                   /\ AppliedAsUntracked(
                          modifyOrder(BookL3, order_id, price, quantity, seq_num,
                                      is_last_in_batch),
                          modifyOrder(fresh, order_id, price, quantity, 0, is_last_in_batch),
                          seq_num)
                   /\ AppliedAsUntracked(
                          executeOrder(BookL3, order_id, quantity, seq_num, is_last_in_batch),
                          executeOrder(fresh, order_id, quantity, 0, is_last_in_batch),
                          seq_num)
                   /\ AppliedAsUntracked(
                          deleteOrder(BookL3, order_id, seq_num, is_last_in_batch),
                          deleteOrder(fresh, order_id, 0, is_last_in_batch), seq_num)

\* An L2 book whose last_seq_num stands at the largest number has just applied
\* an update_level made with seq_num 0.
UntrackedUpdateAppliedAtMaxSeq ==
    /\ scope.book = "L2"
    /\ result.call.op = "updateLevel"
    /\ result.call.seq_num = 0
    /\ last_seq_num = MaxSeq
    /\ events # <<>>

OrdersOfSide(b, side) == {id \in DOMAIN b.order_map : b.pool[b.order_map[id]].side = side}

SideOrderCount(b, side) == Len(Flatten(b.levels[side]))

\* C36: in the L3 book, clear_side(side) leaves no level and no order on that
\* side (level_count(side) and order_count(side) are 0, no order id of that
\* side is found any more, no order record of that side is left), and the
\* opposite side keeps every level with its total quantity and queue, every
\* order id and every order record.
ClearSideEmptiesOnlyThatSide ==
    scope.book = "L3" =>
        \A side \in Sides :
            LET b == clearSide(BookL3, side)
                other == CHOOSE s \in Sides : s # side
            IN /\ Len(b.levels[side]) = 0
               /\ SideOrderCount(b, side) = 0
               /\ \A id \in OrdersOfSide(BookL3, side) : id \notin DOMAIN b.order_map
               /\ \A r \in DOMAIN b.pool : b.pool[r].side # side
               /\ b.levels[other] = levels[other]
               /\ OrdersOfSide(b, other) = OrdersOfSide(BookL3, other)
               /\ \A id \in OrdersOfSide(BookL3, other) :
                     /\ b.order_map[id] = order_map[id]
                     /\ b.pool[b.order_map[id]] = pool[order_map[id]]

\* A bid side that had been published was cleared while asks rest in the book.
BidSideClearedBesideAsks ==
    /\ scope.book = "L3"
    /\ result.returns = "void"
    /\ levels["Buy"] = <<>>
    /\ cached_tob.best_bid # 0
    /\ levels["Sell"] # <<>>
    /\ OrdersOfSide(BookL3, "Sell") # {}

\* C37: a caller never operates on a book the manager has destroyed: whenever
\* a thread uses the pointer that getOrderBook or getOrCreateOrderBook gave it,
\* the map still owns that very book, whatever removeOrderBook and clear calls
\* other threads have made meanwhile.
HandleNeverUsedAfterDestroy ==
    [][\A t \in Threads :
          (threads[t].pc = "done" /\ threads'[t].pc = "operated") =>
              Alive(symbol_map, threads[t].book)]_vars

\* A call is in progress: entered and not yet returned.
InCall(t) == threads[t].pc \notin {"idle", "done", "operated"}

\* C38: the manager never deadlocks: under fair lock scheduling every call of
\* getOrCreateOrderBook, getOrderBook, hasSymbol, removeOrderBook, getSymbols,
\* symbolCount and clear that a thread has entered eventually returns.
EveryRegistryCallReturns ==
    \A t \in Threads : InCall(t) ~> (threads[t].pc = "done")

\* Both threads missed the same symbol under the shared lock and both wait
\* for the exclusive lock at the same time.
TwoThreadsUpgradeTogether ==
    /\ scope.book = "Registry"
    /\ \A t \in Threads : /\ threads[t].pc = "goc_unique"
                          /\ threads[t].symbol = 1
    /\ mutex = [exclusive |-> 0, shared |-> {}]

\* C39: in both books a publication never repeats the value published before
\* it: every TopOfBookUpdate a call delivers differs in best_bid, bid_quantity,
\* best_ask or ask_quantity from the TopOfBookUpdate delivered before it, and
\* the first one ever delivered differs from the empty top of book.
TobPublicationNeverRepeats ==
    [][LET tobs == TobEvents(events')
       IN \A i \in 1..Len(tobs) :
             TobValues(tobs[i]) #
                 (IF i = 1 THEN hist.published ELSE TobValues(tobs[i - 1]))]_vars

\* After earlier publications the book publishes the empty top of book again.
EmptyTobPublishedAgain ==
    /\ TobEvents(events) # <<>>
    /\ TobValues(TobEvents(events)[1]) = <<0, 0, 0, 0>>
    /\ hist.published = <<0, 0, 0, 0>>

\* The L3 call just made closed its batch, returned true and delivered an
\* OrderUpdate.
LastInBatchCallSucceeded ==
    /\ scope.book = "L3"
    /\ result.returns = "bool"
    /\ result.is_last
    /\ result.ret
    /\ \E i \in 1..Len(events) : events[i].type = "OrderUpdate"

\* C40: in the L3 book, right after a mutating call with is_last_in_batch =
\* true that returned true and delivered an OrderUpdate, the cached top of book
\* holds the best bid and ask prices and total quantities of the level maps,
\* whatever earlier batched calls, clear_side or clear had left unpublished.
CachedTobCatchesUpAtBatchClose ==
    LastInBatchCallSucceeded => TobValues(cached_tob) = TobOfLevels(levels)

\* The closing call leaves the best levels as they were when its batch opened,
\* and still publishes: the published value was behind the book.
BatchClosePublishesEarlierChange ==
    /\ LastInBatchCallSucceeded
    /\ ~hist.changed
    /\ hist.differs
    /\ TobEvents(events) # <<>>

====
